---- MODULE Spec2Model ----
(***************************************************************************)
(* A model of eip7702cleaner: the Clear and Set flows (pkg/cmd/clear.go),  *)
(* the JSON-RPC client, the fee estimator and the EIP-7702 transaction     *)
(* builder (pkg/cmd helpers), driven against a nondeterministic node.      *)
(***************************************************************************)
EXTENDS Integers, Sequences, FiniteSets, TLC

(***************************************************************************)
(* Strings.  A Go string that the program parses is a sequence of          *)
(* character codes: '0'..'9' are 0..9, 'a'..'f' are 10..15, 'A'..'F' are   *)
(* 16..21, then 'x', 'g' and the letters of "yes" and "n".  Strings that   *)
(* the program only passes on (messages, the transaction hash) are TLA+    *)
(* strings.                                                                *)
(***************************************************************************)
CharCode ==
  "0" :> 0 @@ "1" :> 1 @@ "2" :> 2 @@ "3" :> 3 @@ "4" :> 4 @@ "5" :> 5 @@
  "6" :> 6 @@ "7" :> 7 @@ "8" :> 8 @@ "9" :> 9 @@ "a" :> 10 @@ "b" :> 11 @@
  "c" :> 12 @@ "d" :> 13 @@ "e" :> 14 @@ "f" :> 15 @@ "A" :> 16 @@ "B" :> 17 @@
  "C" :> 18 @@ "D" :> 19 @@ "E" :> 20 @@ "F" :> 21 @@ "x" :> 22 @@ "g" :> 23 @@
  "y" :> 24 @@ "s" :> 25 @@ "n" :> 26 @@ "Y" :> 27 @@ "S" :> 28

S(cs) == [k \in 1..Len(cs) |-> CharCode[cs[k]]]

IsHexChar(c) == c \in 0..21

\* strings.ToLower, character by character
LowerChar(c) ==
  IF c \in 16..21 THEN c - 6
  ELSE IF c = CharCode["Y"] THEN CharCode["y"]
  ELSE IF c = CharCode["S"] THEN CharCode["s"]
  ELSE c

ToLower(s) == [k \in 1..Len(s) |-> LowerChar(s[k])]

HexVal(c) == IF c <= 15 THEN c ELSE c - 6

\* strings.TrimPrefix(s, "0x")
TrimPrefix0x(s) ==
  IF Len(s) >= 2 /\ s[1] = CharCode["0"] /\ s[2] = CharCode["x"]
  THEN SubSeq(s, 3, Len(s))
  ELSE s

\* s[2:] ; only defined when len(s) >= 2 (the caller panics otherwise)
Slice2(s) == SubSeq(s, 3, Len(s))

RECURSIVE ScanHex(_, _, _)
ScanHex(s, k, acc) ==
  IF k > Len(s) \/ ~IsHexChar(s[k]) THEN acc
  ELSE ScanHex(s, k + 1, acc * 16 + HexVal(s[k]))

\* new(big.Int).SetString(s, 16) with the result flag ignored, as every caller
\* does: the receiver holds the digits scanned before the first character that
\* is no hex digit (0 when there is none).
SetString16(s) == ScanHex(s, 1, 0)

\* whether SetString(s, 16) reports success
SetString16Ok(s) == Len(s) > 0 /\ \A k \in 1..Len(s) : IsHexChar(s[k])

(***************************************************************************)
(* Errors are the chain of messages that fmt.Errorf("...: %w") builds,     *)
(* outermost first; NoErr is nil.                                          *)
(***************************************************************************)
NoErr == <<>>

Wrap(msg, err) == <<msg>> \o err

ErrTransport == <<"transport: node unreachable">>

ErrJSON == <<"json: cannot unmarshal">>

(***************************************************************************)
(* What the node can answer.  A response either fails in transport         *)
(* (makeRPCCall returns an error), or carries a body that is no JSON, or   *)
(* a JSON object with a result and/or an error message ("" when absent).   *)
(***************************************************************************)
RespTransport == [transport |-> TRUE, json |-> FALSE, result |-> <<>>, errmsg |-> ""]

RespGarbage == [transport |-> FALSE, json |-> FALSE, result |-> <<>>, errmsg |-> ""]

RespError(m) == [transport |-> FALSE, json |-> TRUE, result |-> <<>>, errmsg |-> m]

RespResult(r) == [transport |-> FALSE, json |-> TRUE, result |-> r, errmsg |-> ""]

NodeMessage == "nonce too low"

NodeMessages == {NodeMessage, "insufficient funds for gas"}

\* results of getChainID / getNonce / getGasPrice: a value, an error, or a
\* run-time panic (slice bounds out of range)
Value(v) == [panic |-> FALSE, err |-> NoErr, val |-> v]

Failure(e) == [panic |-> FALSE, err |-> e, val |-> 0]

Panic == [panic |-> TRUE, err |-> NoErr, val |-> 0]

\* getChainID gets the chain ID from the RPC endpoint; result.Result[2:]
\* panics when the result string has fewer than two characters
getChainID(resp) ==
  IF resp.transport THEN Failure(ErrTransport)
  ELSE IF ~resp.json THEN Failure(ErrJSON)
  ELSE IF Len(resp.result) < 2 THEN Panic
  ELSE Value(SetString16(Slice2(resp.result)))

RECURSIVE ScanHexDigits(_, _)
\* the digits that SetString(s, 16) scans: the values of the hex digits of
\* s from position k up to the first character that is none
ScanHexDigits(s, k) ==
  IF k > Len(s) \/ ~IsHexChar(s[k]) THEN <<>>
  ELSE <<HexVal(s[k])>> \o ScanHexDigits(s, k + 1)

RECURSIVE NatOf(_)
\* the number that a sequence of hex digits writes
NatOf(ds) == IF ds = <<>> THEN 0 ELSE NatOf(SubSeq(ds, 1, Len(ds) - 1)) * 16 + ds[Len(ds)]

\* the low 64 bits of a number, as 16 hex digits
Low64(ds) ==
  IF Len(ds) >= 16 THEN SubSeq(ds, Len(ds) - 15, Len(ds))
  ELSE [k \in 1..(16 - Len(ds)) |-> 0] \o ds

\* big.Int.Int64: the low 64 bits of the number, read as two's complement
Int64(ds) ==
  LET low == Low64(ds)
  IN IF low[1] >= 8 THEN 0 - (NatOf([k \in 1..16 |-> 15 - low[k]]) + 1)
     ELSE NatOf(low)

\* getNonce gets the nonce for an address
getNonce(resp) ==
  IF resp.transport THEN Failure(ErrTransport)
  ELSE IF ~resp.json THEN Failure(ErrJSON)
  ELSE IF Len(resp.result) < 2 THEN Panic
  ELSE Value(Int64(ScanHexDigits(Slice2(resp.result), 1)))

\* getGasPrice gets the current gas price
getGasPrice(resp) ==
  IF resp.transport THEN Failure(ErrTransport)
  ELSE IF ~resp.json THEN Failure(ErrJSON)
  ELSE IF Len(resp.result) < 2 THEN Panic
  ELSE Value(SetString16(Slice2(resp.result)))

(***************************************************************************)
(* Bytes.  A byte is 0..255.  The 64 bytes r||s of the n-th signature that *)
(* the ECDSA library produced are values the model does not compute: they  *)
(* are the symbols SigByte(n, 1..64), numbered above 255, so that they are *)
(* unequal to every known byte and to each other.                          *)
(***************************************************************************)
SigByte(n, k) == 256 + 64 * (n - 1) + (k - 1)

IsSymbolic(b) == b >= 256

RECURSIVE IntToBytes(_)
\* minimal big-endian bytes of a non-negative integer (0 is the empty string)
IntToBytes(n) == IF n = 0 THEN <<>> ELSE IntToBytes(n \div 256) \o <<n % 256>>

RECURSIVE StripZeros(_)
\* new(big.Int).SetBytes(b), as RLP writes it: b without leading zero bytes
StripZeros(b) == IF Len(b) > 0 /\ b[1] = 0 THEN StripZeros(Tail(b)) ELSE b

\* hex.EncodeToString: two characters per byte
HexNibbles(b) ==
  IF IsSymbolic(b) THEN <<100 + 2 * (b - 256), 101 + 2 * (b - 256)>>
  ELSE <<b \div 16, b % 16>>

HexEncodeToString(bs) ==
  [k \in 1..(2 * Len(bs)) |-> HexNibbles(bs[(k + 1) \div 2])[2 - (k % 2)]]

HexPairOk(h, l) ==
  \/ IsHexChar(h) /\ IsHexChar(l)
  \/ h >= 100 /\ h % 2 = 0 /\ l = h + 1

HexPairByte(h, l) ==
  IF h >= 100 THEN 256 + (h - 100) \div 2 ELSE 16 * HexVal(h) + HexVal(l)

\* hex.DecodeString: [ok, bytes]
HexDecodeString(s) ==
  IF Len(s) % 2 = 1 \/ \E k \in 1..(Len(s) \div 2) : ~HexPairOk(s[2 * k - 1], s[2 * k])
  THEN [ok |-> FALSE, bytes |-> <<>>]
  ELSE [ok |-> TRUE,
        bytes |-> [k \in 1..(Len(s) \div 2) |-> HexPairByte(s[2 * k - 1], s[2 * k])]]

(***************************************************************************)
(* RLP (go-ethereum/rlp).  Go values to encode: an integer (uint8, uint64, *)
(* *big.Int), a big.Int made from bytes, a byte string (common.Address,    *)
(* []byte) and a list ([]interface{}).                                     *)
(***************************************************************************)
UInt(n) == [t |-> "int", n |-> n, b |-> <<>>, xs |-> <<>>]

BigFromBytes(b) == [t |-> "bytes", n |-> 0, b |-> StripZeros(b), xs |-> <<>>]

Bytes(b) == [t |-> "bytes", n |-> 0, b |-> b, xs |-> <<>>]

List(xs) == [t |-> "list", n |-> 0, b |-> <<>>, xs |-> xs]

RlpHeader(short, len) ==
  IF len < 56 THEN <<short + len>>
  ELSE <<short + 55 + Len(IntToBytes(len))>> \o IntToBytes(len)

RlpString(b) ==
  IF Len(b) = 1 /\ b[1] < 128 THEN b ELSE RlpHeader(128, Len(b)) \o b

RECURSIVE RlpEncode(_)
RECURSIVE RlpConcat(_)
RlpConcat(xs) ==
  IF xs = <<>> THEN <<>> ELSE RlpEncode(Head(xs)) \o RlpConcat(Tail(xs))

\* rlp.EncodeToBytes
RlpEncode(v) ==
  IF v.t = "int" THEN RlpString(IntToBytes(v.n))
  ELSE IF v.t = "bytes" THEN RlpString(v.b)
  ELSE LET payload == RlpConcat(v.xs) IN RlpHeader(192, Len(payload)) \o payload

RECURSIVE BytesToInt(_)
BytesToInt(b) == IF b = <<>> THEN 0 ELSE BytesToInt(SubSeq(b, 1, Len(b) - 1)) * 256 + b[Len(b)]

NoItem == [ok |-> FALSE, item |-> Bytes(<<>>), next |-> 0]

\* the size that follows a long-form header: [ok, size, start], canonical only
RlpLongSize(bs, pos, lenlen) ==
  IF pos + lenlen > Len(bs) THEN [ok |-> FALSE, size |-> 0, start |-> 0]
  ELSE LET lb == SubSeq(bs, pos + 1, pos + lenlen)
           size == BytesToInt(lb)
       IN [ok |-> lb[1] # 0 /\ size >= 56, size |-> size, start |-> pos + lenlen + 1]

RECURSIVE RlpDecodeAt(_, _)
RECURSIVE RlpDecodeList(_, _, _, _)
\* the items of a list whose payload is bs[pos .. last]
RlpDecodeList(bs, pos, last, acc) ==
  IF pos > last THEN [ok |-> pos = last + 1, item |-> List(acc), next |-> last + 1]
  ELSE LET d == RlpDecodeAt(bs, pos)
       IN IF ~d.ok \/ d.next > last + 1 THEN NoItem
          ELSE RlpDecodeList(bs, d.next, last, Append(acc, d.item))

\* one item starting at bs[pos]: [ok, item, next]; strings decode to []byte and
\* lists to []interface{}
RlpDecodeAt(bs, pos) ==
  IF pos > Len(bs) THEN NoItem
  ELSE LET h == bs[pos] IN
    IF h < 128 \/ IsSymbolic(h) THEN [ok |-> ~IsSymbolic(h), item |-> Bytes(<<h>>), next |-> pos + 1]
    ELSE IF h < 184 THEN
      LET len == h - 128
          b == SubSeq(bs, pos + 1, pos + len)
      IN IF pos + len > Len(bs) \/ (len = 1 /\ b[1] < 128) THEN NoItem
         ELSE [ok |-> TRUE, item |-> Bytes(b), next |-> pos + len + 1]
    ELSE IF h < 192 THEN
      LET sz == RlpLongSize(bs, pos, h - 183)
      IN IF ~sz.ok \/ sz.start + sz.size - 1 > Len(bs) THEN NoItem
         ELSE [ok |-> TRUE, item |-> Bytes(SubSeq(bs, sz.start, sz.start + sz.size - 1)),
               next |-> sz.start + sz.size]
    ELSE IF h < 248 THEN
      IF pos + (h - 192) > Len(bs) THEN NoItem
      ELSE RlpDecodeList(bs, pos + 1, pos + (h - 192), <<>>)
    ELSE
      LET sz == RlpLongSize(bs, pos, h - 247)
      IN IF ~sz.ok \/ sz.start + sz.size - 1 > Len(bs) THEN NoItem
         ELSE RlpDecodeList(bs, sz.start, sz.start + sz.size - 1, <<>>)

\* rlp.DecodeBytes(payload, &txRaw) with txRaw []interface{}: the input must be
\* exactly one list
RlpDecodeBytes(bs) ==
  LET d == RlpDecodeAt(bs, 1)
  IN IF d.ok /\ d.next = Len(bs) + 1 /\ d.item.t = "list"
     THEN [ok |-> TRUE, xs |-> d.item.xs]
     ELSE [ok |-> FALSE, xs |-> <<>>]

(***************************************************************************)
(* Cryptography (go-ethereum/crypto), abstractly.  Keccak256 is an ideal   *)
(* hash: the digest stands for its preimage.  crypto.Sign returns the 65   *)
(* bytes r || s || v of the n-th signature of the run; the library's       *)
(* outcome lib = [ok, v] (an error, or the recovery id it chose) is not    *)
(* computed by the model.  What was signed with which key is recorded by   *)
(* the caller in the log sigs, and Recover reads it back.                  *)
(***************************************************************************)
SET_CODE_TX_TYPE == 4

MAGIC == 5

Keccak256(msg) == [keccak |-> msg]

LibOutcomes == [ok : BOOLEAN, v : 0..1]

Sign(n, lib) == [k \in 1..64 |-> SigByte(n, k)] \o <<lib.v>>

ErrSign == <<"crypto: sign failed">>

\* crypto.PubkeyToAddress: the address of a private key
PubkeyToAddress(priv) == [addressOf |-> priv]

\* mutant: the digest is taken over the list without the magic byte in front
authTupleMessageNoMagic(chainId, addr, nonce) ==
  Keccak256(RlpEncode(List(<<UInt(chainId), Bytes(addr), UInt(nonce)>>)))

\* computes the signing digest of the authorization tuple
authTupleMessage(chainId, addr, nonce) ==
  Keccak256(<<MAGIC>> \o RlpEncode(List(<<UInt(chainId), Bytes(addr), UInt(nonce)>>)))

TxResult(hex, err, signed) == [hex |-> hex, err |-> err, signed |-> signed]

\* mutant: the envelope is built without the (empty) access list
build7702TxNoAccessList(chainId, userPriv, relayerNonce, userNonce, gasTip, gasFeeCap, gasLimit, contractAddr, txData, n, lib) ==
  LET sig == Sign(n, lib)
      rawTx == List(<<
        UInt(chainId), UInt(relayerNonce), UInt(gasTip), UInt(gasFeeCap),
        UInt(gasLimit), Bytes(contractAddr), UInt(0), Bytes(txData),
        List(<<List(<<UInt(chainId), Bytes(contractAddr), UInt(userNonce), UInt(sig[65]),
                      BigFromBytes(SubSeq(sig, 1, 32)), BigFromBytes(SubSeq(sig, 33, 64))>>)>>)>>)
  IN IF ~lib.ok THEN TxResult(<<>>, ErrSign, <<>>)
     ELSE TxResult(HexEncodeToString(<<SET_CODE_TX_TYPE>> \o RlpEncode(rawTx)), NoErr,
                   <<[key |-> userPriv,
                      digest |-> authTupleMessage(chainId, contractAddr, userNonce)]>>)

\* n is the number of the signature this call produces, lib the library's
\* outcome; signed lists the (key, digest) pairs the call signed
build7702Tx(chainId, userPriv, relayerNonce, userNonce, gasTip, gasFeeCap, gasLimit, contractAddr, txData, n, lib) ==
  LET authMsg == authTupleMessage(chainId, contractAddr, userNonce)
      sig == Sign(n, lib)
      r == BigFromBytes(SubSeq(sig, 1, 32))
      s == BigFromBytes(SubSeq(sig, 33, 64))
      yParity == UInt(sig[65])
      rawTx == List(<<
        UInt(chainId), UInt(relayerNonce), UInt(gasTip), UInt(gasFeeCap),
        UInt(gasLimit), Bytes(contractAddr), UInt(0), Bytes(txData),
        List(<<>>),
        List(<<List(<<UInt(chainId), Bytes(contractAddr), UInt(userNonce),
                      yParity, r, s>>)>>)>>)
      finalTx == <<SET_CODE_TX_TYPE>> \o RlpEncode(rawTx)
  IN IF ~lib.ok THEN TxResult(<<>>, ErrSign, <<>>)
     ELSE TxResult(HexEncodeToString(finalTx), NoErr,
                   <<[key |-> userPriv, digest |-> authMsg]>>)

\* mutant: the digest leaves out the transaction type byte
signEIP7702TxNoTypeByte(rawHex, relayerPriv, n, lib) ==
  LET payload == Tail(HexDecodeString(rawHex).bytes)
      txRaw == RlpDecodeBytes(payload)
      sig == Sign(n, lib)
      finalPayload == RlpEncode(List(txRaw.xs \o <<UInt(sig[65]),
                        BigFromBytes(SubSeq(sig, 1, 32)), BigFromBytes(SubSeq(sig, 33, 64))>>))
  IN IF ~lib.ok THEN TxResult(<<>>, ErrSign, <<>>)
     ELSE TxResult(HexEncodeToString(<<4>> \o finalPayload), NoErr,
                   <<[key |-> relayerPriv, digest |-> Keccak256(payload)]>>)

\* mutant: the outer signature is appended as r, s, recovery id
signEIP7702TxSigOrder(rawHex, relayerPriv, n, lib) ==
  LET payload == Tail(HexDecodeString(rawHex).bytes)
      txRaw == RlpDecodeBytes(payload)
      sig == Sign(n, lib)
      finalPayload == RlpEncode(List(txRaw.xs \o <<BigFromBytes(SubSeq(sig, 1, 32)),
                        BigFromBytes(SubSeq(sig, 33, 64)), UInt(sig[65])>>))
  IN IF ~lib.ok THEN TxResult(<<>>, ErrSign, <<>>)
     ELSE TxResult(HexEncodeToString(<<4>> \o finalPayload), NoErr,
                   <<[key |-> relayerPriv, digest |-> Keccak256(<<4>> \o payload)]>>)

\* mutant: the decoded byte strings are read as numbers before re-encoding
signEIP7702TxAsNumbers(rawHex, relayerPriv, n, lib) ==
  LET dec == HexDecodeString(rawHex)
      txBytes == dec.bytes
      payload == Tail(txBytes)
      txRaw == RlpDecodeBytes(payload)
      hash == Keccak256(<<4>> \o payload)
      sig == Sign(n, lib)
      r == BigFromBytes(SubSeq(sig, 1, 32))
      s == BigFromBytes(SubSeq(sig, 33, 64))
      yParity == UInt(sig[65])
      numbers == [k \in DOMAIN txRaw.xs |->
                    IF txRaw.xs[k].t = "bytes" THEN BigFromBytes(txRaw.xs[k].b) ELSE txRaw.xs[k]]
      finalPayload == RlpEncode(List(numbers \o <<yParity, r, s>>))
      finalTx == <<4>> \o finalPayload
  IN IF ~dec.ok THEN TxResult(<<>>, <<"encoding/hex: invalid">>, <<>>)
     ELSE IF Len(txBytes) < 1 \/ txBytes[1] # 4
       THEN TxResult(<<>>, <<"not a EIP-7702 tx hex">>, <<>>)
     ELSE IF ~txRaw.ok THEN TxResult(<<>>, <<"rlp: invalid">>, <<>>)
     ELSE IF ~lib.ok THEN TxResult(<<>>, ErrSign, <<>>)
     ELSE TxResult(HexEncodeToString(finalTx), NoErr,
                   <<[key |-> relayerPriv, digest |-> hash]>>)

signEIP7702Tx(rawHex, relayerPriv, n, lib) ==
  LET dec == HexDecodeString(rawHex)
      txBytes == dec.bytes
      payload == Tail(txBytes)
      txRaw == RlpDecodeBytes(payload)
      hash == Keccak256(<<4>> \o payload)
      sig == Sign(n, lib)
      r == BigFromBytes(SubSeq(sig, 1, 32))
      s == BigFromBytes(SubSeq(sig, 33, 64))
      yParity == UInt(sig[65])
      finalPayload == RlpEncode(List(txRaw.xs \o <<yParity, r, s>>))
      finalTx == <<4>> \o finalPayload
  IN IF ~dec.ok THEN TxResult(<<>>, <<"encoding/hex: invalid">>, <<>>)
     ELSE IF Len(txBytes) < 1 \/ txBytes[1] # 4
       THEN TxResult(<<>>, <<"not a EIP-7702 tx hex">>, <<>>)
     ELSE IF ~txRaw.ok THEN TxResult(<<>>, <<"rlp: invalid">>, <<>>)
     ELSE IF ~lib.ok THEN TxResult(<<>>, ErrSign, <<>>)
     ELSE TxResult(HexEncodeToString(finalTx), NoErr,
                   <<[key |-> relayerPriv, digest |-> hash]>>)

\* GenerateSet7702AuthTx with another template address and another key for
\* the envelope (used by the mutants below)
GenerateWith(req, template, outerKey, n0, lib1, lib2) ==
  LET unsigned == build7702Tx(req.ChainId, req.UserEOAPrivateKey, req.RelayerNonce,
                              req.UserEOANonce, req.GasTip, req.GasFeeCap,
                              req.GasLimit, template, <<>>, n0 + 1, lib1)
      signed == signEIP7702Tx(unsigned.hex, outerKey, n0 + 2, lib2)
  IN IF unsigned.err # NoErr THEN TxResult(<<>>, unsigned.err, unsigned.signed)
     ELSE IF signed.err # NoErr
       THEN TxResult(<<>>, signed.err, unsigned.signed \o signed.signed)
     ELSE TxResult(signed.hex, NoErr, unsigned.signed \o signed.signed)

\* mutant: the delegate is always the zero address, whatever the request says
GenerateIgnoresTemplate(req, n0, lib1, lib2) ==
  GenerateWith(req, [k \in 1..20 |-> 0], req.RelayerEOAPrivateKey, n0, lib1, lib2)

\* mutant: the envelope is signed with the authorizer's key
GenerateSignsOuterWithUserKey(req, n0, lib1, lib2) ==
  GenerateWith(req, req.TemplateAddress, req.UserEOAPrivateKey, n0, lib1, lib2)

\* mutant: when the outer signature fails the payload of build7702Tx is returned
GenerateReturnsPartial(req, n0, lib1, lib2) ==
  LET unsigned == build7702Tx(req.ChainId, req.UserEOAPrivateKey, req.RelayerNonce,
                              req.UserEOANonce, req.GasTip, req.GasFeeCap,
                              req.GasLimit, req.TemplateAddress, <<>>, n0 + 1, lib1)
      signed == signEIP7702Tx(unsigned.hex, req.RelayerEOAPrivateKey, n0 + 2, lib2)
  IN IF unsigned.err # NoErr THEN TxResult(<<>>, unsigned.err, unsigned.signed)
     ELSE IF signed.err # NoErr
       THEN TxResult(unsigned.hex, NoErr, unsigned.signed \o signed.signed)
     ELSE TxResult(signed.hex, NoErr, unsigned.signed \o signed.signed)

\* GenerateSet7702AuthTx generates an EIP-7702 authorization transaction;
\* n0 signatures were made before the call, lib1 and lib2 are the library's
\* outcomes of the two crypto.Sign calls
GenerateSet7702AuthTx(req, n0, lib1, lib2) ==
  LET unsigned == build7702Tx(req.ChainId, req.UserEOAPrivateKey, req.RelayerNonce,
                              req.UserEOANonce, req.GasTip, req.GasFeeCap,
                              req.GasLimit, req.TemplateAddress, <<>>, n0 + 1, lib1)
      signed == signEIP7702Tx(unsigned.hex, req.RelayerEOAPrivateKey, n0 + 2, lib2)
  IN IF unsigned.err # NoErr THEN TxResult(<<>>, unsigned.err, unsigned.signed)
     ELSE IF signed.err # NoErr
       THEN TxResult(<<>>, signed.err, unsigned.signed \o signed.signed)
     ELSE TxResult(signed.hex, NoErr, unsigned.signed \o signed.signed)

(***************************************************************************)
(* Fee estimator.  The three responses are the node's answers to           *)
(* eth_maxPriorityFeePerGas, eth_getBlockByNumber (result is the block's   *)
(* baseFeePerGas, empty when absent) and eth_gasPrice; calls lists the     *)
(* requests that were actually sent, in order.                             *)
(***************************************************************************)
MinPriorityFee == 100000000

FeeResult(tip, cap, err, panic, calls) ==
  [tip |-> tip, cap |-> cap, err |-> err, panic |-> panic, calls |-> calls]

\* mutant: the gas price is returned as the node gave it, without the floor
fallbackGasFeesNoFloor(gpResp, calls) ==
  LET g == getGasPrice(gpResp)
      after == Append(calls, "eth_gasPrice")
  IN IF g.panic THEN FeeResult(0, 0, NoErr, TRUE, after)
     ELSE IF g.err # NoErr
       THEN FeeResult(0, 0, Wrap("failed to get gas price for fallback", g.err), FALSE, after)
     ELSE FeeResult(g.val, g.val, NoErr, FALSE, after)

\* mutant: only the tip is raised to the minimum, the cap stays the gas price
fallbackGasFeesTipOnly(gpResp, calls) ==
  LET g == getGasPrice(gpResp)
      after == Append(calls, "eth_gasPrice")
      gasPrice == IF g.val < MinPriorityFee THEN MinPriorityFee ELSE g.val
  IN IF g.panic THEN FeeResult(0, 0, NoErr, TRUE, after)
     ELSE IF g.err # NoErr
       THEN FeeResult(0, 0, Wrap("failed to get gas price for fallback", g.err), FALSE, after)
     ELSE FeeResult(gasPrice, g.val, NoErr, FALSE, after)

\* fallbackGasFees provides a fallback method for networks without EIP-1559
fallbackGasFees(gpResp, calls) ==
  LET g == getGasPrice(gpResp)
      after == Append(calls, "eth_gasPrice")
      gasPrice == IF g.val < MinPriorityFee THEN MinPriorityFee ELSE g.val
  IN IF g.panic THEN FeeResult(0, 0, NoErr, TRUE, after)
     ELSE IF g.err # NoErr
       THEN FeeResult(0, 0, Wrap("failed to get gas price for fallback", g.err), FALSE, after)
     ELSE FeeResult(gasPrice, gasPrice, NoErr, FALSE, after)

\* mutant: the heuristic of the first generation of Clear: a tenth of the
\* gas price as priority fee and twice the gas price as fee cap
legacyGasFees(tipResp, blockResp, gpResp) ==
  LET g == getGasPrice(gpResp)
      calls == <<"eth_gasPrice">>
  IN IF g.panic THEN FeeResult(0, 0, NoErr, TRUE, calls)
     ELSE IF g.err # NoErr THEN FeeResult(0, 0, Wrap("failed to get gas price", g.err), FALSE, calls)
     ELSE FeeResult(g.val \div 10, 2 * g.val, NoErr, FALSE, calls)

\* mutant: a failed block request falls back to the gas price as well
getSuggestedGasFeesAlwaysFallsBack(tipResp, blockResp, gpResp) ==
  LET c1 == <<"eth_maxPriorityFeePerGas">>
      c2 == Append(c1, "eth_getBlockByNumber")
      fetched == SetString16(TrimPrefix0x(tipResp.result))
      baseFeePerGas == SetString16(TrimPrefix0x(blockResp.result))
      below == fetched < MinPriorityFee
      maxPriorityFeePerGas == IF below THEN MinPriorityFee ELSE fetched
      gasFeeCap == IF below THEN 2 * baseFeePerGas + MinPriorityFee
                   ELSE 2 * baseFeePerGas + fetched
  IN IF tipResp.transport THEN fallbackGasFees(gpResp, c1)
     ELSE IF ~tipResp.json \/ tipResp.result = <<>> THEN fallbackGasFees(gpResp, c1)
     ELSE IF blockResp.transport THEN fallbackGasFees(gpResp, c2)
     ELSE IF ~blockResp.json \/ blockResp.result = <<>> THEN fallbackGasFees(gpResp, c2)
     ELSE FeeResult(maxPriorityFeePerGas, gasFeeCap, NoErr, FALSE, c2)

\* mutant: the fee cap is not recomputed after the priority fee was raised
getSuggestedGasFeesStaleCap(tipResp, blockResp, gpResp) ==
  LET c1 == <<"eth_maxPriorityFeePerGas">>
      c2 == Append(c1, "eth_getBlockByNumber")
      fetched == SetString16(TrimPrefix0x(tipResp.result))
      baseFeePerGas == SetString16(TrimPrefix0x(blockResp.result))
      maxPriorityFeePerGas == IF fetched < MinPriorityFee THEN MinPriorityFee ELSE fetched
      gasFeeCap == 2 * baseFeePerGas + fetched
  IN IF tipResp.transport THEN fallbackGasFees(gpResp, c1)
     ELSE IF ~tipResp.json \/ tipResp.result = <<>> THEN fallbackGasFees(gpResp, c1)
     ELSE IF blockResp.transport
       THEN FeeResult(0, 0, Wrap("failed to get latest block", ErrTransport), FALSE, c2)
     ELSE IF ~blockResp.json \/ blockResp.result = <<>> THEN fallbackGasFees(gpResp, c2)
     ELSE FeeResult(maxPriorityFeePerGas, gasFeeCap, NoErr, FALSE, c2)

\* getSuggestedGasFees queries the RPC for EIP-1559 gas fee suggestions
getSuggestedGasFees(tipResp, blockResp, gpResp) ==
  LET c1 == <<"eth_maxPriorityFeePerGas">>
      c2 == Append(c1, "eth_getBlockByNumber")
      fetched == SetString16(TrimPrefix0x(tipResp.result))
      baseFeePerGas == SetString16(TrimPrefix0x(blockResp.result))
      below == fetched < MinPriorityFee
      maxPriorityFeePerGas == IF below THEN MinPriorityFee ELSE fetched
      gasFeeCap == IF below THEN 2 * baseFeePerGas + MinPriorityFee
                   ELSE 2 * baseFeePerGas + fetched
  IN IF tipResp.transport THEN fallbackGasFees(gpResp, c1)
     ELSE IF ~tipResp.json \/ tipResp.result = <<>> THEN fallbackGasFees(gpResp, c1)
     ELSE IF blockResp.transport
       THEN FeeResult(0, 0, Wrap("failed to get latest block", ErrTransport), FALSE, c2)
     ELSE IF ~blockResp.json \/ blockResp.result = <<>> THEN fallbackGasFees(gpResp, c2)
     ELSE FeeResult(maxPriorityFeePerGas, gasFeeCap, NoErr, FALSE, c2)

(***************************************************************************)
(* Addresses and keys.                                                     *)
(***************************************************************************)
AllHex(s) == \A k \in 1..Len(s) : IsHexChar(s[k])

\* common.IsHexAddress
IsHexAddress(s) == LET h == TrimPrefix0x(s) IN Len(h) = 40 /\ AllHex(h)

\* common.HexToAddress, for a string that IsHexAddress accepts
HexToAddress(s) == HexDecodeString(TrimPrefix0x(s)).bytes

\* common.Address{}
ZeroAddress == [k \in 1..20 |-> 0]

\* crypto.HexToECDSA: 64 hex digits that are not all zero ([ok, key])
HexToECDSA(s) ==
  IF Len(s) = 64 /\ AllHex(s) /\ \E k \in 1..64 : HexVal(s[k]) # 0
  THEN [ok |-> TRUE, key |-> [k \in 1..64 |-> HexVal(s[k])]]
  ELSE [ok |-> FALSE, key |-> <<>>]

(***************************************************************************)
(* broadcastRawTx and getTransactionReceipt, as functions of the node's    *)
(* response.  For eth_sendRawTransaction the result is the transaction     *)
(* hash, a string the program never parses.  The errors of io.ReadAll and  *)
(* json.Unmarshal are dropped by broadcastRawTx.                           *)
(***************************************************************************)
\* mutant: a result in the response wins over its error message
broadcastPrefersResult(resp) ==
  IF resp.transport THEN [hash |-> "", err |-> ErrTransport]
  ELSE IF resp.json /\ resp.result # "" THEN [hash |-> resp.result, err |-> NoErr]
  ELSE IF resp.json /\ resp.errmsg # "" THEN [hash |-> "", err |-> <<resp.errmsg>>]
  ELSE [hash |-> "", err |-> NoErr]

broadcastRawTx(resp) ==
  LET message == IF resp.json THEN resp.errmsg ELSE ""
      result == IF resp.json THEN resp.result ELSE ""
  IN IF resp.transport THEN [hash |-> "", err |-> ErrTransport]
     ELSE IF message # "" THEN [hash |-> "", err |-> <<message>>]
     ELSE [hash |-> result, err |-> NoErr]

NoReceipt == [present |-> FALSE, status |-> ""]

Receipt(status) == [present |-> TRUE, status |-> status]

RcptTransport == [transport |-> TRUE, json |-> FALSE, receipt |-> NoReceipt]

RcptGarbage == [transport |-> FALSE, json |-> FALSE, receipt |-> NoReceipt]

RcptResult(r) == [transport |-> FALSE, json |-> TRUE, receipt |-> r]

getTransactionReceipt(resp) ==
  IF resp.transport THEN [receipt |-> NoReceipt, err |-> ErrTransport]
  ELSE IF ~resp.json THEN [receipt |-> NoReceipt, err |-> ErrJSON]
  ELSE [receipt |-> resp.receipt, err |-> NoErr]

(***************************************************************************)
(* Check (pkg/cmd/check.go), as a function of its argument and of the      *)
(* node's response to eth_getCode: the error it returns, what it prints    *)
(* and the requests it sent.                                               *)
(***************************************************************************)
\* strings.HasPrefix
HasPrefix(s, prefix) == Len(s) >= Len(prefix) /\ SubSeq(s, 1, Len(prefix)) = prefix

CheckResult(err, verdict, contractAddr, calls) ==
  [err |-> err, verdict |-> verdict, contractAddr |-> contractAddr, calls |-> calls]

\* mutant: the marker is matched without lowering the case of the code
CheckCaseSensitive(address, resp) ==
  LET result == resp.result
      codeWithoutPrefix == IF HasPrefix(result, S(<<"0", "x">>)) THEN Slice2(result) ELSE result
      codeHexLower == ToLower(codeWithoutPrefix)
      sent == <<"eth_getCode">>
  IN IF address = <<>> THEN CheckResult(<<"address is required">>, "", <<>>, <<>>)
     ELSE IF ~IsHexAddress(address)
       THEN CheckResult(<<"invalid Ethereum address format">>, "", <<>>, <<>>)
     ELSE IF resp.transport
       THEN CheckResult(Wrap("HTTP request failed", ErrTransport), "", <<>>, sent)
     ELSE IF ~resp.json
       THEN CheckResult(Wrap("failed to unmarshal JSON-RPC response", ErrJSON), "", <<>>, sent)
     ELSE IF resp.errmsg # ""
       THEN CheckResult(<<"JSON-RPC error", resp.errmsg>>, "", <<>>, sent)
     ELSE IF result = <<>> \/ result = S(<<"0", "x">>)
       THEN CheckResult(NoErr, "safe", <<>>, sent)
     ELSE IF HasPrefix(codeWithoutPrefix, S(<<"e", "f", "0", "1", "0", "0">>))
       THEN CheckResult(NoErr, "delegated",
                        S(<<"0", "x">>) \o SubSeq(codeWithoutPrefix, 7, Len(codeWithoutPrefix)), sent)
     ELSE CheckResult(NoErr, "contract", <<>>, sent)

\* mutant: the address is validated only after the code was fetched
CheckValidatesLate(address, resp) ==
  LET result == resp.result
      codeWithoutPrefix == IF HasPrefix(result, S(<<"0", "x">>)) THEN Slice2(result) ELSE result
      codeHexLower == ToLower(codeWithoutPrefix)
      sent == <<"eth_getCode">>
  IN IF resp.transport
       THEN CheckResult(Wrap("HTTP request failed", ErrTransport), "", <<>>, sent)
     ELSE IF ~resp.json
       THEN CheckResult(Wrap("failed to unmarshal JSON-RPC response", ErrJSON), "", <<>>, sent)
     ELSE IF resp.errmsg # ""
       THEN CheckResult(<<"JSON-RPC error", resp.errmsg>>, "", <<>>, sent)
     ELSE IF address = <<>> THEN CheckResult(<<"address is required">>, "", <<>>, sent)
     ELSE IF ~IsHexAddress(address)
       THEN CheckResult(<<"invalid Ethereum address format">>, "", <<>>, sent)
     ELSE IF result = <<>> \/ result = S(<<"0", "x">>)
       THEN CheckResult(NoErr, "safe", <<>>, sent)
     ELSE IF HasPrefix(codeHexLower, S(<<"e", "f", "0", "1", "0", "0">>))
       THEN CheckResult(NoErr, "delegated",
                        S(<<"0", "x">>) \o SubSeq(codeWithoutPrefix, 7, Len(codeWithoutPrefix)), sent)
     ELSE CheckResult(NoErr, "contract", <<>>, sent)

\* Check performs the check command
Check(address, resp) ==
  LET result == resp.result
      codeWithoutPrefix == IF HasPrefix(result, S(<<"0", "x">>)) THEN Slice2(result) ELSE result
      codeHexLower == ToLower(codeWithoutPrefix)
      sent == <<"eth_getCode">>
  IN IF address = <<>> THEN CheckResult(<<"address is required">>, "", <<>>, <<>>)
     ELSE IF ~IsHexAddress(address)
       THEN CheckResult(<<"invalid Ethereum address format">>, "", <<>>, <<>>)
     ELSE IF resp.transport
       THEN CheckResult(Wrap("HTTP request failed", ErrTransport), "", <<>>, sent)
     ELSE IF ~resp.json
       THEN CheckResult(Wrap("failed to unmarshal JSON-RPC response", ErrJSON), "", <<>>, sent)
     ELSE IF resp.errmsg # ""
       THEN CheckResult(<<"JSON-RPC error", resp.errmsg>>, "", <<>>, sent)
     ELSE IF result = <<>> \/ result = S(<<"0", "x">>)
       THEN CheckResult(NoErr, "safe", <<>>, sent)
     ELSE IF HasPrefix(codeHexLower, S(<<"e", "f", "0", "1", "0", "0">>))
       THEN CheckResult(NoErr, "delegated",
                        S(<<"0", "x">>) \o SubSeq(codeWithoutPrefix, 7, Len(codeWithoutPrefix)), sent)
     ELSE CheckResult(NoErr, "contract", <<>>, sent)

(***************************************************************************)
(* The inputs of a run and the answers the node may give.                  *)
(***************************************************************************)
Commands == {"clear", "set", "check"}

ValidContract == S(<<"0", "x">>) \o [k \in 1..40 |-> IF k % 2 = 1 THEN 10 ELSE 17]

ContractInputs == {ValidContract, S(<<"0", "x", "1", "g">>)}

\* Check's argument: a valid address, with and without prefix, none, and
\* one that is no address
AddressInputs == {ValidContract, Slice2(ValidContract), <<>>, S(<<"0", "x", "1", "g">>)}

\* the delegation marker followed by the 20 bytes 0xaBaB...aB
Marker == S(<<"e", "f", "0", "1", "0", "0">>)

Designator == Marker \o Slice2(ValidContract)

\* code the node may report for the address
CodeResults ==
  {<<>>, S(<<"0", "x">>), S(<<"0", "x", "6", "0", "0", "1">>),
   S(<<"0", "x">>) \o Designator,
   S(<<"0", "x", "E", "F", "0", "1", "0", "0">>) \o Slice2(ValidContract),
   Designator,
   S(<<"0", "x">>) \o Marker,
   S(<<"0", "x">>) \o Designator \o S(<<"f", "f">>),
   S(<<"0", "x", "e", "f", "0", "1">>),
   S(<<"0", "x", "0", "0">>) \o Designator}

CodeResps ==
  {RespTransport, RespGarbage, RespError(NodeMessage)} \cup {RespResult(c) : c \in CodeResults}

GasLimits == {100000}

UserKeyHex == [k \in 1..64 |-> 1]

RelayerKeyHex == [k \in 1..64 |-> 2]

UserKeyInputs == {<<>>, S(<<"1", "g">>), UserKeyHex}

RelayerKeyInputs == {<<>>, S(<<"0", "x">>) \o [k \in 1..64 |-> 0], S(<<"0", "x">>) \o RelayerKeyHex}

ChainIdResps ==
  {RespTransport, RespGarbage, RespError(NodeMessage), RespResult(S(<<"0", "x", "1">>))}

NonceResps ==
  {RespTransport, RespGarbage, RespError(NodeMessage),
   RespResult(S(<<"0", "x", "5">>)), RespResult(S(<<"0", "x", "c">>))}

TipResps ==
  {RespTransport, RespGarbage, RespError(NodeMessage),
   RespResult(S(<<"0", "x", "1">>)),
   RespResult(S(<<"0", "x", "5", "f", "5", "e", "1", "0", "0">>))}

BlockResps ==
  {RespTransport, RespGarbage, RespResult(<<>>),
   RespResult(S(<<"0", "x", "3", "b", "9", "a", "c", "a", "0", "0">>))}

GasPriceResps ==
  {RespTransport, RespGarbage, RespError(NodeMessage),
   RespResult(S(<<"0", "x", "1">>)),
   RespResult(S(<<"0", "x", "3", "b", "9", "a", "c", "a", "0", "0">>))}

Confirmations ==
  {S(<<"y">>), S(<<"Y", "E", "S">>), S(<<"n">>), <<>>, S(<<"y", "e">>)}

TxHashes == {"0xabc"}

BroadcastResps ==
  [transport : {TRUE}, json : {FALSE}, result : {""}, errmsg : {""}]
  \cup [transport : {FALSE}, json : {FALSE}, result : {""}, errmsg : {""}]
  \cup [transport : {FALSE}, json : {TRUE}, result : TxHashes \cup {""},
        errmsg : NodeMessages \cup {""}]

ReceiptResps ==
  {RcptTransport, RcptGarbage, RcptResult(NoReceipt),
   RcptResult(Receipt("0x1")), RcptResult(Receipt("0x0")),
   RcptResult(Receipt("")), RcptResult(Receipt("0x2"))}

RECURSIVE HexDigits(_)
\* the hex digits of n, most significant first
HexDigits(n) == IF n < 16 THEN <<n>> ELSE HexDigits(n \div 16) \o <<n % 16>>

\* a quantity as a node writes it: 0x and the hex digits
Quantity(n) == S(<<"0", "x">>) \o HexDigits(n)

\* the node's answers to the three requests of the fee estimator, by kind;
\* n is the number a "value" answer carries
PriorityFees == {0, 1, 99999999, 100000000, 100000001, 140000000}

BaseFees == {0, 7, 1000000000}

GasPrices == {0, 1, 99999999, 100000000, 100000001, 1000000000}

FeeAnswers(kinds, values) ==
  {[kind |-> k, n |-> 0] : k \in kinds} \cup {[kind |-> "value", n |-> v] : v \in values}

FeeInputs ==
  [tip : FeeAnswers({"transport", "garbage", "error", "empty"}, PriorityFees),
   block : FeeAnswers({"transport", "garbage", "nobase"}, BaseFees),
   gp : FeeAnswers({"transport", "garbage", "error"}, GasPrices)]

ResponseOf(a) ==
  IF a.kind = "transport" THEN RespTransport
  ELSE IF a.kind = "garbage" THEN RespGarbage
  ELSE IF a.kind = "error" THEN RespError(NodeMessage)
  ELSE IF a.kind = "value" THEN RespResult(Quantity(a.n))
  ELSE RespResult(<<>>)

\* n as 16 hex digits
Pad16(n) == Low64(HexDigits(n))

\* uint64(x) of an int64 x, as hex digits without leading zeros
Uint64Hex(x) ==
  IF x >= 0 THEN HexDigits(x)
  ELSE LET m == Pad16(0 - x - 1) IN [k \in 1..16 |-> 15 - m[k]]

\* uint64(x) of an int64 x, as a number
Uint64(x) == NatOf(Uint64Hex(x))

\* the numbers a node may report as a nonce, as hex digits: small ones, one
\* with leading zeros, 2^64 + k and 2^64 - k
NonceDigits ==
  {HexDigits(n) : n \in 0..39} \cup {<<0, 0, 5>>}
  \cup {<<1>> \o Pad16(k) : k \in 0..19}
  \cup {Uint64Hex(0 - k) : k \in 1..20}

NonceInputs ==
  {[kind |-> k, digits |-> <<>>] : k \in {"transport", "garbage", "error"}}
  \cup {[kind |-> "value", digits |-> ds] : ds \in NonceDigits}

NonceResponseOf(a) ==
  IF a.kind = "transport" THEN RespTransport
  ELSE IF a.kind = "garbage" THEN RespGarbage
  ELSE IF a.kind = "error" THEN RespError(NodeMessage)
  ELSE RespResult(S(<<"0", "x">>) \o a.digits)

\* the exit code of a process that has not exited
Running == 0 - 1

NoNonceIn == [kind |-> "none", digits |-> <<>>]

NoFeeIn ==
  [tip |-> [kind |-> "none", n |-> 0], block |-> [kind |-> "none", n |-> 0],
   gp |-> [kind |-> "none", n |-> 0]]

NoFeeOut == [fn |-> "", tip |-> 0, cap |-> 0, err |-> NoErr, panic |-> FALSE, calls |-> <<>>]

(***************************************************************************)
(* The state of one run of Clear or Set.                                   *)
(***************************************************************************)
VARIABLES
  cmd,              \* "clear", "set" or "check"
  contractAddress,  \* Set's argument (unused by Clear)
  address,          \* Check's argument
  verdict,          \* what Check printed: "safe", "delegated" or "contract"
  contractAddr,     \* the contract address Check printed
  codeResult,       \* the result of eth_getCode that Check read
  feeIn,            \* the node's answers to the fee estimator's requests
  feeOut,           \* what the fee estimator returned
  confirmation,     \* what the user typed at the confirmation prompt
  nonceIn,          \* the node's answer to one eth_getTransactionCount request
  nonceOut,         \* the hex digits of the uint64 nonce put into the request
  watcher,          \* the interrupt goroutine: "waiting", "received" or "restored"
  restored,         \* term.Restore(fd, oldState) was called
  exitCode,         \* the process's exit code, Running while it runs
  gasLimit,         \* the --gas-limit flag
  pc,               \* where the run is; "done" after return, "panic" after a crash
  err,              \* the error the command returned (NoErr: nil)
  userKey,          \* victimPrivateKey / userPrivateKey
  relayerKey,       \* relayerPrivateKey
  chainID, userNonce, relayerNonce, gasTip, gasFeeCap,
  signedTx,         \* the hex payload handed to broadcastRawTx
  sigs,             \* every crypto.Sign call so far: [key, digest]
  txHash,           \* what broadcastRawTx returned
  i,                \* the polling loop's counter
  sleeps,           \* time.Sleep(5 * time.Second) calls
  lastPoll,         \* what the node answered to the poll of this iteration
  nodeError,        \* the error.message of the node's latest response, "" if none
  rpcLog,           \* the JSON-RPC requests sent, in order
  out               \* what the broadcast and confirmation part printed

vars == <<cmd, contractAddress, gasLimit, pc, err, userKey, relayerKey, chainID,
          userNonce, relayerNonce, gasTip, gasFeeCap, signedTx, sigs, txHash, i,
          sleeps, lastPoll, nodeError, rpcLog, out, address, verdict, contractAddr,
          codeResult, feeIn, feeOut, confirmation, nonceIn, nonceOut,
          watcher, restored, exitCode>>

procVars == <<watcher, restored, exitCode>>

nonceVars == <<nonceIn, nonceOut>>

checkVars == <<address, verdict, contractAddr, codeResult>>

feeVars == <<feeIn, feeOut>>

inputVars == <<cmd, contractAddress, gasLimit>>

keyVars == <<userKey, relayerKey>>

chainVars == <<chainID, userNonce, relayerNonce, gasTip, gasFeeCap>>

txVars == <<signedTx, sigs>>

pollVars == <<txHash, i, sleeps, lastPoll, out>>

\* mutant: one attempt too many
MaxPollsOffByOne == 60 + 1

MaxPolls == 60

Init ==
  /\ cmd \in Commands
  /\ contractAddress \in (IF cmd = "set" THEN ContractInputs ELSE {<<>>})
  /\ gasLimit \in GasLimits
  /\ pc = "start"
  /\ err = NoErr
  /\ userKey = <<>>
  /\ relayerKey = <<>>
  /\ chainID = 0
  /\ userNonce = 0
  /\ relayerNonce = 0
  /\ gasTip = 0
  /\ gasFeeCap = 0
  /\ signedTx = <<>>
  /\ sigs = <<>>
  /\ txHash = ""
  /\ i = 0
  /\ sleeps = 0
  /\ lastPoll = "none"
  /\ nodeError = ""
  /\ rpcLog = <<>>
  /\ out = <<>>
  /\ address \in (IF cmd = "check" THEN AddressInputs ELSE {<<>>})
  /\ verdict = ""
  /\ contractAddr = <<>>
  /\ codeResult = <<>>
  /\ feeIn = NoFeeIn
  /\ feeOut = NoFeeOut
  /\ confirmation = <<>>
  /\ nonceIn = NoNonceIn
  /\ nonceOut = <<>>
  /\ watcher = "waiting"
  /\ restored = FALSE
  /\ exitCode = Running

\* return fmt.Errorf(...)
Return(e) == pc' = "done" /\ err' = e

Goto(l) == pc' = l /\ err' = err

UserName == IF cmd = "clear" THEN "victim" ELSE "user"

\* Set validates its argument before anything else; Clear has none
Start ==
  /\ pc = "start"
  /\ cmd \in {"clear", "set"}
  /\ IF cmd = "set" /\ ~IsHexAddress(contractAddress)
     THEN Return(<<"invalid contract address format">>)
     ELSE Goto("readUserKey")
  /\ UNCHANGED <<inputVars, checkVars, feeVars, nonceVars, procVars, confirmation, keyVars, chainVars, txVars, pollVars, rpcLog, nodeError>>

\* readPrivateKey followed by crypto.HexToECDSA: [key, err]
ParseKey(typed, who) ==
  LET k == HexToECDSA(TrimPrefix0x(typed))
  IN IF typed = <<>>
     THEN [key |-> <<>>,
           err |-> <<"error reading " \o who \o " private key", "private key cannot be empty">>]
     ELSE IF ~k.ok
       THEN [key |-> <<>>, err |-> <<"invalid " \o who \o " private key", "invalid hex">>]
     ELSE [key |-> k.key, err |-> NoErr]

ReadUserKey ==
  /\ pc = "readUserKey"
  /\ \E typed \in UserKeyInputs :
       LET k == ParseKey(typed, UserName)
       IN /\ IF k.err # NoErr THEN Return(k.err) ELSE Goto("readRelayerKey")
          /\ userKey' = k.key
  /\ UNCHANGED <<inputVars, checkVars, feeVars, nonceVars, procVars, confirmation, relayerKey, chainVars, txVars, pollVars, rpcLog, nodeError>>

ReadRelayerKey ==
  /\ pc = "readRelayerKey"
  /\ \E typed \in RelayerKeyInputs :
       LET k == ParseKey(typed, "relayer")
       IN /\ IF k.err # NoErr THEN Return(k.err) ELSE Goto("getChainID")
          /\ relayerKey' = k.key
  /\ UNCHANGED <<inputVars, checkVars, feeVars, nonceVars, procVars, confirmation, userKey, chainVars, txVars, pollVars, rpcLog, nodeError>>

\* the error.message the program could read in a response
Message(resp) == IF resp.transport \/ ~resp.json THEN "" ELSE resp.errmsg

\* the response to the last of the fee estimator's calls
LastResponse(calls, tipResp, blockResp, gpResp) ==
  LET last == calls[Len(calls)]
  IN IF last = "eth_gasPrice" THEN gpResp
     ELSE IF last = "eth_getBlockByNumber" THEN blockResp
     ELSE tipResp

\* what Clear and Set do with the result r of a getter: crash, return the
\* wrapped error, or go on to the next step
AfterCall(r, msg, next) ==
  IF r.panic THEN pc' = "panic" /\ err' = err
  ELSE IF r.err # NoErr THEN Return(Wrap(msg, r.err))
  ELSE Goto(next)

GetChainID ==
  /\ pc = "getChainID"
  /\ \E resp \in ChainIdResps :
       LET r == getChainID(resp)
       IN /\ AfterCall(r, "failed to get chain ID", "getUserNonce")
          /\ chainID' = r.val
          /\ nodeError' = Message(resp)
  /\ rpcLog' = Append(rpcLog, "eth_chainId")
  /\ UNCHANGED <<inputVars, checkVars, feeVars, nonceVars, procVars, confirmation, keyVars, userNonce, relayerNonce, gasTip, gasFeeCap,
                 txVars, pollVars>>

GetUserNonce ==
  /\ pc = "getUserNonce"
  /\ \E resp \in NonceResps :
       LET r == getNonce(resp)
       IN /\ AfterCall(r, "failed to get " \o UserName \o " nonce", "getRelayerNonce")
          /\ userNonce' = r.val
          /\ nodeError' = Message(resp)
  /\ rpcLog' = Append(rpcLog, "eth_getTransactionCount")
  /\ UNCHANGED <<inputVars, checkVars, feeVars, nonceVars, procVars, confirmation, keyVars, chainID, relayerNonce, gasTip, gasFeeCap,
                 txVars, pollVars>>

GetRelayerNonce ==
  /\ pc = "getRelayerNonce"
  /\ \E resp \in NonceResps :
       LET r == getNonce(resp)
       IN /\ AfterCall(r, "failed to get relayer nonce", "getFees")
          /\ relayerNonce' = r.val
          /\ nodeError' = Message(resp)
  /\ rpcLog' = Append(rpcLog, "eth_getTransactionCount")
  /\ UNCHANGED <<inputVars, checkVars, feeVars, nonceVars, procVars, confirmation, keyVars, chainID, userNonce, gasTip, gasFeeCap,
                 txVars, pollVars>>

GetFees ==
  /\ pc = "getFees"
  /\ \E tipResp \in TipResps, blockResp \in BlockResps, gpResp \in GasPriceResps :
       LET r == getSuggestedGasFees(tipResp, blockResp, gpResp)
       IN /\ AfterCall(r, "failed to get suggested gas fees", "confirm")
          /\ gasTip' = r.tip
          /\ gasFeeCap' = r.cap
          /\ rpcLog' = rpcLog \o r.calls
          /\ nodeError' = Message(LastResponse(r.calls, tipResp, blockResp, gpResp))
  /\ UNCHANGED <<inputVars, checkVars, feeVars, nonceVars, procVars, confirmation, keyVars, chainID, userNonce, relayerNonce, txVars, pollVars>>

\* mutant: any answer that begins with y or Y confirms
ConfirmedByFirstLetter(typed) == Len(typed) >= 1 /\ LowerChar(typed[1]) = CharCode["y"]

\* fmt.Scanln(&confirmation) and the test on strings.ToLower(confirmation)
Confirmed(typed) == ToLower(typed) = S(<<"y">>) \/ ToLower(typed) = S(<<"y", "e", "s">>)

Confirm ==
  /\ pc = "confirm"
  /\ \E typed \in Confirmations :
       /\ confirmation' = typed
       /\ IF Confirmed(typed) THEN Goto("generate")
          ELSE Return(<<"operation cancelled by user">>)
  /\ UNCHANGED <<inputVars, checkVars, feeVars, nonceVars, procVars, keyVars, chainVars, txVars, pollVars, rpcLog, nodeError>>

\* mutant: the two counters change places in the request
RequestSwapsNonces ==
  [UserEOAPrivateKey |-> userKey,
   UserEOANonce |-> Uint64(relayerNonce),
   RelayerEOAPrivateKey |-> relayerKey,
   RelayerNonce |-> Uint64(userNonce),
   TemplateAddress |-> IF cmd = "clear" THEN ZeroAddress ELSE HexToAddress(contractAddress),
   ChainId |-> chainID,
   GasTip |-> gasTip,
   GasFeeCap |-> gasFeeCap,
   GasLimit |-> gasLimit]

\* the SetAuthorizationRequest that Clear and Set build
Request ==
  [UserEOAPrivateKey |-> userKey,
   UserEOANonce |-> Uint64(userNonce),
   RelayerEOAPrivateKey |-> relayerKey,
   RelayerNonce |-> Uint64(relayerNonce),
   TemplateAddress |-> IF cmd = "clear" THEN ZeroAddress ELSE HexToAddress(contractAddress),
   ChainId |-> chainID,
   GasTip |-> gasTip,
   GasFeeCap |-> gasFeeCap,
   GasLimit |-> gasLimit]

Generate ==
  /\ pc = "generate"
  /\ \E lib1 \in LibOutcomes, lib2 \in LibOutcomes :
       LET r == GenerateSet7702AuthTx(Request, Len(sigs), lib1, lib2)
       IN /\ IF r.err # NoErr THEN Return(Wrap("failed to generate transaction", r.err))
             ELSE Goto("broadcast")
          /\ signedTx' = r.hex
          /\ sigs' = sigs \o r.signed
  /\ UNCHANGED <<inputVars, checkVars, feeVars, nonceVars, procVars, confirmation, keyVars, chainVars, pollVars, rpcLog, nodeError>>

\* mutant: a failed broadcast is sent a second time
BroadcastTwice ==
  /\ pc = "broadcast"
  /\ \E first \in BroadcastResps, resp \in BroadcastResps :
       LET r == broadcastRawTx(resp)
       IN /\ IF r.err # NoErr
             THEN /\ Return(Wrap("failed to broadcast transaction", r.err))
                  /\ UNCHANGED <<txHash, out>>
             ELSE /\ Goto("sleep")
                  /\ txHash' = r.hash
                  /\ out' = <<"Transaction successfully sent!">>
          /\ nodeError' = Message(resp)
          /\ rpcLog' = IF broadcastRawTx(first).err # NoErr
                       THEN rpcLog \o <<"eth_sendRawTransaction", "eth_sendRawTransaction">>
                       ELSE Append(rpcLog, "eth_sendRawTransaction")
  /\ UNCHANGED <<inputVars, checkVars, feeVars, nonceVars, procVars, confirmation, keyVars, chainVars, txVars, i, sleeps, lastPoll>>

Broadcast ==
  /\ pc = "broadcast"
  /\ \E resp \in BroadcastResps :
       LET r == broadcastRawTx(resp)
       IN /\ IF r.err # NoErr
             THEN /\ Return(Wrap("failed to broadcast transaction", r.err))
                  /\ UNCHANGED <<txHash, out>>
             ELSE /\ Goto("sleep")
                  /\ txHash' = r.hash
                  /\ out' = <<"Transaction successfully sent!">>
          /\ nodeError' = Message(resp)
  /\ rpcLog' = Append(rpcLog, "eth_sendRawTransaction")
  /\ UNCHANGED <<inputVars, checkVars, feeVars, nonceVars, procVars, confirmation, keyVars, chainVars, txVars, i, sleeps, lastPoll>>

\* time.Sleep(5 * time.Second), the first statement of the loop body
Sleep ==
  /\ pc = "sleep"
  /\ sleeps' = sleeps + 1
  /\ lastPoll' = "none"
  /\ Goto("poll")
  /\ UNCHANGED <<inputVars, checkVars, feeVars, nonceVars, procVars, confirmation, keyVars, chainVars, txVars, txHash, i, out, rpcLog, nodeError>>

\* what the node answered to a poll: no usable answer ("error"), no receipt
\* yet ("absent"), or a receipt, by its status
Observed(resp) ==
  IF resp.transport \/ ~resp.json THEN "error"
  ELSE IF ~resp.receipt.present THEN "absent"
  ELSE IF resp.receipt.status \in {"0x1", "0x0"} THEN resp.receipt.status
  ELSE "other"

\* mutant: every status other than "0x1" counts as a failed transaction
ClassifyOtherFails(r) ==
  IF r.err = NoErr /\ r.receipt.present
  THEN IF r.receipt.status = "0x1" THEN "break" ELSE "failed"
  ELSE "next"

\* mutant: a reverted transaction does not end the loop
ClassifyIgnoresRevert(r) ==
  IF r.err = NoErr /\ r.receipt.present /\ r.receipt.status = "0x1" THEN "break" ELSE "next"

\* the loop body's test of getTransactionReceipt's result r
Classify(r) ==
  IF r.err = NoErr /\ r.receipt.present
  THEN IF r.receipt.status = "0x1" THEN "break"
       ELSE IF r.receipt.status = "0x0" THEN "failed"
       ELSE "next"
  ELSE "next"

MinedMessage == "Transaction successfully mined!"

VerifyHint == "To verify the EIP-7702 authorization, run: eip7702cleaner check"

\* the error of a mined but reverted transaction
ErrTransactionFailed(hash) == <<"transaction failed: " \o hash>>

\* mutant: running out of attempts is returned as an error
ExhaustedReturnsError == <<"timed out waiting for the receipt">>

\* what Clear and Set return when the loop ran out of attempts
ExhaustedReturn == NoErr

\* the rest of the loop body, the loop's exit test and what follows the loop
Poll ==
  /\ pc = "poll"
  /\ \E resp \in ReceiptResps :
       LET c == Classify(getTransactionReceipt(resp))
       IN /\ lastPoll' = Observed(resp)
          /\ IF c = "break"
             THEN /\ out' = out \o <<MinedMessage, VerifyHint>>
                  /\ Return(NoErr)
                  /\ i' = i
             ELSE IF c = "failed"
             THEN /\ Return(ErrTransactionFailed(txHash))
                  /\ UNCHANGED <<out, i>>
             ELSE /\ i' = i + 1
                  /\ IF i + 1 < MaxPolls
                     THEN Goto("sleep") /\ out' = Append(out, ".")
                     ELSE Return(ExhaustedReturn) /\ out' = out \o <<".", VerifyHint>>
  /\ rpcLog' = Append(rpcLog, "eth_getTransactionReceipt")
  /\ UNCHANGED <<inputVars, checkVars, feeVars, nonceVars, procVars, confirmation, keyVars, chainVars, txVars, txHash, sleeps, nodeError>>

\* one run of the check command
RunCheck ==
  /\ pc = "start"
  /\ cmd = "check"
  /\ \E resp \in CodeResps :
       LET r == Check(address, resp)
       IN /\ Return(r.err)
          /\ verdict' = r.verdict
          /\ contractAddr' = r.contractAddr
          /\ rpcLog' = rpcLog \o r.calls
          /\ codeResult' = IF r.calls = <<>> \/ resp.transport \/ ~resp.json THEN <<>>
                           ELSE resp.result
          /\ nodeError' = IF r.calls = <<>> THEN "" ELSE Message(resp)
  /\ UNCHANGED <<inputVars, address, feeVars, nonceVars, procVars, confirmation, keyVars, chainVars, txVars, pollVars>>

Next ==
  \/ RunCheck
  \/ Start
  \/ ReadUserKey
  \/ ReadRelayerKey
  \/ GetChainID
  \/ GetUserNonce
  \/ GetRelayerNonce
  \/ GetFees
  \/ Confirm
  \/ Generate
  \/ Broadcast
  \/ Sleep
  \/ Poll

Spec == Init /\ [][Next]_vars

\* every call returns, so a run that can take a step takes it
FairSpec == Spec /\ WF_vars(Next)

(***************************************************************************)
(* The fee estimator on its own: one call of getSuggestedGasFees or of     *)
(* fallbackGasFees against every combination of answers in FeeInputs.      *)
(***************************************************************************)
InitFees ==
  /\ feeIn \in FeeInputs
  /\ feeOut = NoFeeOut
  /\ pc = "estimate"
  /\ cmd = "clear"
  /\ contractAddress = <<>>
  /\ gasLimit \in GasLimits
  /\ err = NoErr
  /\ userKey = <<>>
  /\ relayerKey = <<>>
  /\ chainID = 0
  /\ userNonce = 0
  /\ relayerNonce = 0
  /\ gasTip = 0
  /\ gasFeeCap = 0
  /\ signedTx = <<>>
  /\ sigs = <<>>
  /\ txHash = ""
  /\ i = 0
  /\ sleeps = 0
  /\ lastPoll = "none"
  /\ nodeError = ""
  /\ rpcLog = <<>>
  /\ out = <<>>
  /\ address = <<>>
  /\ verdict = ""
  /\ contractAddr = <<>>
  /\ codeResult = <<>>
  /\ confirmation = <<>>
  /\ nonceIn = NoNonceIn
  /\ nonceOut = <<>>
  /\ watcher = "waiting"
  /\ restored = FALSE
  /\ exitCode = Running

\* the caller's view of a result r of the estimator
Estimated(fn, r) ==
  /\ feeOut' = [fn |-> fn, tip |-> r.tip, cap |-> r.cap, err |-> r.err,
                panic |-> r.panic, calls |-> r.calls]
  /\ gasTip' = r.tip
  /\ gasFeeCap' = r.cap
  /\ rpcLog' = r.calls
  /\ IF r.panic THEN pc' = "panic" /\ err' = err ELSE Return(r.err)
  /\ UNCHANGED <<inputVars, checkVars, feeIn, nonceVars, procVars, confirmation, keyVars, chainID, userNonce,
                 relayerNonce, txVars, pollVars, nodeError>>

EstimateFees ==
  /\ pc = "estimate"
  /\ Estimated("getSuggestedGasFees",
               getSuggestedGasFees(ResponseOf(feeIn.tip), ResponseOf(feeIn.block),
                                   ResponseOf(feeIn.gp)))

EstimateFallback ==
  /\ pc = "estimate"
  /\ Estimated("fallbackGasFees", fallbackGasFees(ResponseOf(feeIn.gp), <<>>))

NextFees ==
  \/ EstimateFees
  \/ EstimateFallback

SpecFees == InitFees /\ [][NextFees]_vars

(***************************************************************************)
(* One nonce read on its own: getNonce against every answer in NonceInputs *)
(* and the conversion to uint64 that Clear and Set apply to its result.    *)
(***************************************************************************)
InitNonce ==
  /\ nonceIn \in NonceInputs
  /\ nonceOut = <<>>
  /\ pc = "getUserNonce"
  /\ cmd = "clear"
  /\ contractAddress = <<>>
  /\ gasLimit \in GasLimits
  /\ err = NoErr
  /\ userKey = <<>>
  /\ relayerKey = <<>>
  /\ chainID = 0
  /\ userNonce = 0
  /\ relayerNonce = 0
  /\ gasTip = 0
  /\ gasFeeCap = 0
  /\ signedTx = <<>>
  /\ sigs = <<>>
  /\ txHash = ""
  /\ i = 0
  /\ sleeps = 0
  /\ lastPoll = "none"
  /\ nodeError = ""
  /\ rpcLog = <<>>
  /\ out = <<>>
  /\ address = <<>>
  /\ verdict = ""
  /\ contractAddr = <<>>
  /\ codeResult = <<>>
  /\ confirmation = <<>>
  /\ feeIn = NoFeeIn
  /\ feeOut = NoFeeOut
  /\ watcher = "waiting"
  /\ restored = FALSE
  /\ exitCode = Running

\* victimNonce, err := getNonce(...) and UserEOANonce: uint64(victimNonce)
ReadNonce ==
  /\ pc = "getUserNonce"
  /\ LET r == getNonce(NonceResponseOf(nonceIn))
     IN /\ AfterCall(r, "failed to get victim nonce", "done")
        /\ userNonce' = r.val
        /\ nonceOut' = IF r.panic \/ r.err # NoErr THEN <<>> ELSE Uint64Hex(r.val)
  /\ rpcLog' = Append(rpcLog, "eth_getTransactionCount")
  /\ UNCHANGED <<inputVars, checkVars, feeVars, nonceIn, procVars, confirmation, keyVars, chainID,
                 relayerNonce, gasTip, gasFeeCap, txVars, pollVars, nodeError>>

NextNonce == ReadNonce

SpecNonce == InitNonce /\ [][NextNonce]_vars

(***************************************************************************)
(* A Clear run next to the goroutine that main starts to watch for the     *)
(* interrupt signal.  The two run concurrently until one of them ends the  *)
(* process.                                                                *)
(***************************************************************************)
InitInterrupt == Init /\ cmd = "clear"

\* <-c: the goroutine takes the signal from the channel
ReceiveInterrupt ==
  /\ exitCode = Running
  /\ watcher = "waiting"
  /\ watcher' = "received"
  /\ UNCHANGED <<inputVars, checkVars, feeVars, nonceVars, confirmation, keyVars, chainVars,
                 txVars, pollVars, pc, err, rpcLog, nodeError, restored, exitCode>>

\* term.Restore(fd, oldState) in the goroutine
WatcherRestore ==
  /\ exitCode = Running
  /\ watcher = "received"
  /\ watcher' = "restored"
  /\ restored' = TRUE
  /\ UNCHANGED <<inputVars, checkVars, feeVars, nonceVars, confirmation, keyVars, chainVars,
                 txVars, pollVars, pc, err, rpcLog, nodeError, exitCode>>

\* fmt.Println("Ctrl+C pressed, exiting...") and os.Exit(0) in the goroutine
WatcherExit ==
  /\ exitCode = Running
  /\ watcher = "restored"
  /\ exitCode' = 0
  /\ UNCHANGED <<inputVars, checkVars, feeVars, nonceVars, confirmation, keyVars, chainVars,
                 txVars, pollVars, pc, err, rpcLog, nodeError, watcher, restored>>

\* the command returned: os.Exit(1) in the Run handler on an error, exit
\* status 2 after a panic, the deferred term.Restore and exit 0 otherwise
MainExit ==
  /\ exitCode = Running
  /\ pc \in {"done", "panic"}
  /\ exitCode' = (IF pc = "panic" THEN 2 ELSE IF err # NoErr THEN 1 ELSE 0)
  /\ restored' = (restored \/ (pc = "done" /\ err = NoErr))
  /\ UNCHANGED <<inputVars, checkVars, feeVars, nonceVars, confirmation, keyVars, chainVars,
                 txVars, pollVars, pc, err, rpcLog, nodeError, watcher>>

\* one step of the main goroutine
MainStep ==
  /\ exitCode = Running
  /\ \/ Start
     \/ ReadUserKey
     \/ ReadRelayerKey
     \/ GetChainID
     \/ GetUserNonce
     \/ GetRelayerNonce
     \/ GetFees
     \/ Confirm
     \/ Generate
     \/ Broadcast
     \/ Sleep
     \/ Poll

NextInterrupt ==
  \/ MainStep
  \/ MainExit
  \/ ReceiveInterrupt
  \/ WatcherRestore
  \/ WatcherExit

SpecInterrupt == InitInterrupt /\ [][NextInterrupt]_vars

(***************************************************************************)
(* Properties.                                                             *)
(***************************************************************************)
Range(s) == {s[k] : k \in DOMAIN s}

Count(m) == Cardinality({k \in DOMAIN rpcLog : rpcLog[k] = m})

Polls == Count("eth_getTransactionReceipt")

LastCall == IF rpcLog = <<>> THEN "" ELSE rpcLog[Len(rpcLog)]

\* the three terminal states of the confirmation driver, by what the node did
TimedOut == pc = "done" /\ i = 60

Mined == pc = "done" /\ lastPoll = "0x1"

Reverted == pc = "done" /\ lastPoll = "0x0"

\* C1: when all 60 polls end without a receipt the command returns nil, not
\* an error, and does not print the message it prints for a mined
\* transaction; a mined transaction prints that message and a reverted one
\* returns an error, so the three outcomes are reported differently.
C1_TimedOutReportedDistinctly ==
  /\ TimedOut => err = NoErr /\ MinedMessage \notin Range(out)
  /\ Mined => err = NoErr /\ MinedMessage \in Range(out)
  /\ Reverted => err # NoErr

C1_Witness == TimedOut /\ lastPoll = "absent" /\ Polls = 60

\* C2: the poll that first sees a receipt with status 0x1 ends the run with
\* no error, the one that first sees status 0x0 ends it with the error
\* "transaction failed: <hash>", and after either no request is sent.
C2_FirstReceiptDecides ==
  /\ [](lastPoll \in {"0x1", "0x0"} => pc = "done")
  /\ [][/\ (pc = "poll" /\ lastPoll' = "0x1") => (pc' = "done" /\ err' = NoErr)
        /\ (pc = "poll" /\ lastPoll' = "0x0") =>
             (pc' = "done" /\ err' = <<"transaction failed: " \o txHash>>)
        /\ lastPoll \in {"0x1", "0x0"} => rpcLog' = rpcLog]_vars

C2_Witness == Reverted /\ i = 2 /\ txHash = "0xabc"

\* C3: at most 60 receipt requests are sent, one sleep precedes each of
\* them, and a run whose broadcast succeeded reaches a terminal state.
C3_BoundedPollingTerminates ==
  /\ [](/\ Polls <= 60
        /\ sleeps = (IF pc = "poll" THEN Polls + 1 ELSE Polls))
  /\ (pc = "sleep") ~> (pc = "done")

C3_Witness == pc = "done" /\ Polls = 60 /\ sleeps = 60

\* C4: receipt polling never starts with an empty transaction hash.
C4_PollingHasHash == pc \in {"sleep", "poll"} => txHash # ""

\* C5: when the answer to eth_sendRawTransaction carries an error message
\* the run ends with the error "failed to broadcast transaction: <message>"
\* and neither sleeps nor polls.
C5_NodeErrorSurfaced ==
  (LastCall = "eth_sendRawTransaction" /\ nodeError # "") =>
    /\ pc = "done"
    /\ err = <<"failed to broadcast transaction", nodeError>>
    /\ txHash = ""
    /\ sleeps = 0

C5_Witness ==
  /\ LastCall = "eth_sendRawTransaction"
  /\ nodeError = "insufficient funds for gas"
  /\ pc = "done"

\* C6: a receipt poll that fails in transport, or whose body is no JSON,
\* ends the run with an error.
C6_TransportErrorAborts == lastPoll = "error" => (pc = "done" /\ err # NoErr)

\* C7: when the answer to eth_chainId, eth_getTransactionCount or
\* eth_gasPrice is a JSON-RPC error object, the run ends with an error that
\* carries the node's message (and does not crash).
C7_ErrorObjectReturned ==
  (nodeError # "" /\ LastCall \in {"eth_chainId", "eth_getTransactionCount", "eth_gasPrice"}) =>
    (pc = "done" /\ nodeError \in Range(err))

\* the fields of the payload that GenerateSet7702AuthTx returned (the run is
\* at "broadcast" right after the call, and signedTx never changes later)
SignedFields == RlpDecodeBytes(Tail(HexDecodeString(signedTx).bytes)).xs

\* the address Clear (zero) and Set (its argument 0xaBaB...aB) delegate to
Delegate == IF cmd = "clear" THEN [k \in 1..20 |-> 0] ELSE [k \in 1..20 |-> 171]

\* C8: the template address of the request (zero for Clear, the argument for
\* Set) is the address inside the signed authorization tuple, the address
\* in the authorization entry and the destination of the envelope.
C8_TemplateIsDelegateAndDestination ==
  (pc = "broadcast" /\ signedTx # <<>>) =>
    /\ SignedFields[6] = Bytes(Delegate)
    /\ SignedFields[10].xs[1].xs[2] = Bytes(Delegate)
    /\ sigs[1].digest =
         Keccak256(<<5>> \o RlpEncode(List(<<UInt(chainID), Bytes(Delegate), UInt(userNonce)>>)))

C8_Witness == signedTx # <<>> /\ cmd = "set" /\ pc = "broadcast"

\* the r and s of the n-th signature, as RLP strings
SigR(n) == Bytes([k \in 1..32 |-> SigByte(n, k)])

SigS(n) == Bytes([k \in 1..32 |-> SigByte(n, 32 + k)])

\* the envelope without outer signature, with the first signature embedded
Envelope(v) ==
  List(<<UInt(chainID), UInt(relayerNonce), UInt(gasTip), UInt(gasFeeCap), UInt(gasLimit),
         Bytes(Delegate), UInt(0), Bytes(<<>>), List(<<>>),
         List(<<List(<<UInt(chainID), Bytes(Delegate), UInt(userNonce), UInt(v),
                       SigR(1), SigS(1)>>)>>)>>)

\* C9: the second signature of a build is over Keccak-256 of the byte 0x04
\* followed by the RLP of the ten-field envelope that already holds the
\* first signature (over the authorization tuple) and no outer signature.
C9_OuterDigestAfterAuthSignature ==
  signedTx # <<>> =>
    /\ Len(sigs) = 2
    /\ sigs[1].digest.keccak[1] = 5
    /\ \E v \in 0..1 : sigs[2].digest = Keccak256(<<4>> \o RlpEncode(Envelope(v)))
    /\ \A k \in DOMAIN sigs[2].digest.keccak : sigs[2].digest.keccak[k] < SigByte(2, 1)

C9_Witness == signedTx # <<>> /\ Len(sigs) = 2 /\ userNonce = 5 /\ relayerNonce = 12

\* the signer of a signature over a digest, from its r: the address of the
\* key that made it, if it was made over that digest
Recover(digest, r) ==
  LET n == (r.b[1] - 256) \div 64 + 1
  IN IF n \in DOMAIN sigs /\ sigs[n].digest = digest /\ r = SigR(n)
     THEN PubkeyToAddress(sigs[n].key)
     ELSE [addressOf |-> <<>>]

\* C10: a build signs at most twice: first the authorization digest with the
\* authorizer's key, then the envelope digest with the relayer's key; the
\* two digests differ, and in the payload the embedded signature recovers
\* to the authorizer and the outer signature to the relayer.
C10_TwoSignaturesTwoKeys ==
  /\ Len(sigs) <= 2
  /\ Len(sigs) >= 1 =>
       /\ sigs[1].key = userKey
       /\ sigs[1].digest = authTupleMessage(chainID, Delegate, userNonce)
  /\ Len(sigs) = 2 =>
       /\ sigs[2].key = relayerKey
       /\ sigs[2].digest # sigs[1].digest
       /\ sigs[2].digest.keccak[1] = 4
  /\ (pc = "broadcast" /\ signedTx # <<>>) =>
       /\ Len(sigs) = 2
       /\ Recover(sigs[1].digest, SignedFields[10].xs[1].xs[5]) = PubkeyToAddress(userKey)
       /\ Recover(sigs[2].digest, SignedFields[12]) = PubkeyToAddress(relayerKey)

C10_Witness == signedTx # <<>> /\ Len(sigs) = 2 /\ cmd = "clear" /\ pc = "broadcast"

\* C11: the payload handed to the broadcast is the byte 0x04 followed by the
\* RLP of a list of thirteen elements in this order: chain id, relayer
\* nonce, priority fee, fee cap, gas limit, destination, value 0, empty
\* data, empty access list, the one-entry authorization list [chain id,
\* delegate, authorizer nonce, recovery id, r, s], then the outer recovery
\* id, r and s; the bytes the relayer signed are the same envelope without
\* those last three elements.
C11_FinalPayloadLayout ==
  (pc = "broadcast" /\ signedTx # <<>>) =>
    LET raw == HexDecodeString(signedTx).bytes
    IN /\ raw[1] = 4
       /\ Len(SignedFields) = 13
       /\ \E v1 \in 0..1, v2 \in 0..1 :
            /\ \A k \in 1..13 :
                 RlpEncode(SignedFields[k]) =
                   RlpEncode((Envelope(v1).xs \o <<UInt(v2), SigR(2), SigS(2)>>)[k])
            /\ Tail(raw) = RlpEncode(List(Envelope(v1).xs \o <<UInt(v2), SigR(2), SigS(2)>>))
            /\ sigs[2].digest = Keccak256(<<4>> \o RlpEncode(Envelope(v1)))

C11_Witness ==
  /\ pc = "broadcast"
  /\ signedTx # <<>>
  /\ Len(SignedFields) = 13
  /\ SignedFields[2] = Bytes(<<12>>)
  /\ SignedFields[12] = SigR(2)

\* the fields of the envelope the relayer signed: the output of build7702Tx
\* without its type byte
UnsignedFields == RlpDecodeBytes(Tail(sigs[2].digest.keccak)).xs

\* C12 as stated: the payload that the transaction build produces has
\* exactly 10 top-level elements and one authorization entry.
C12_BuildHasTenElements ==
  (pc = "broadcast" /\ signedTx # <<>>) =>
    /\ HexDecodeString(signedTx).bytes[1] = 4
    /\ Len(SignedFields) = 10
    /\ Len(SignedFields[10].xs) = 1

\* C12, amended: the envelope that build7702Tx produces and the relayer
\* signs has exactly 10 top-level elements, the payload that
\* GenerateSet7702AuthTx returns has exactly 13 (the same ten and the outer
\* signature), both start with the type byte 0x04, and in both the tenth
\* element is a list of exactly one authorization entry of six fields.
C12_TenUnsignedThirteenSigned ==
  (pc = "broadcast" /\ signedTx # <<>>) =>
    /\ HexDecodeString(signedTx).bytes[1] = 4
    /\ sigs[2].digest.keccak[1] = 4
    /\ Len(UnsignedFields) = 10
    /\ Len(SignedFields) = 13
    /\ SubSeq(SignedFields, 1, 10) = UnsignedFields
    /\ SignedFields[10].t = "list"
    /\ Len(SignedFields[10].xs) = 1
    /\ Len(SignedFields[10].xs[1].xs) = 6

C12_Witness ==
  /\ pc = "broadcast"
  /\ signedTx # <<>>
  /\ cmd = "clear"
  /\ userNonce = 5 /\ relayerNonce = 12 /\ chainID = 1 /\ gasLimit = 100000
  /\ gasTip = 100000000 /\ gasFeeCap = 2100000000
  /\ Len(SignedFields) = 13

Max(a, b) == IF a >= b THEN a ELSE b

\* the estimator took its EIP-1559 path: both the priority fee and the base
\* fee were answered with a value
OnEip1559Path ==
  /\ feeOut.fn = "getSuggestedGasFees"
  /\ feeIn.tip.kind = "value"
  /\ feeIn.block.kind = "value"

\* C13: with priority fee p and base fee b answered by the node,
\* getSuggestedGasFees returns the priority fee max(p, 100000000) and the
\* fee cap 2*b + max(p, 100000000).
C13_Eip1559FeesFromFlooredTip ==
  OnEip1559Path =>
    /\ feeOut.err = NoErr /\ ~feeOut.panic
    /\ feeOut.tip = Max(feeIn.tip.n, 100000000)
    /\ feeOut.cap = 2 * feeIn.block.n + Max(feeIn.tip.n, 100000000)

C13_Witness ==
  /\ OnEip1559Path
  /\ feeIn.tip.n = 1
  /\ feeIn.block.n = 1000000000
  /\ feeOut.tip = 100000000
  /\ feeOut.cap = 2100000000

\* the estimator's answer is that of the legacy fallback with a gas price
OnFallbackWithPrice ==
  /\ feeOut.fn # ""
  /\ feeOut.calls # <<>>
  /\ feeOut.calls[Len(feeOut.calls)] = "eth_gasPrice"
  /\ feeIn.gp.kind = "value"

\* C14: with gas price g answered by the node, the fallback returns
\* max(g, 100000000) as both the priority fee and the fee cap.
C14_FallbackFeesFloored ==
  OnFallbackWithPrice =>
    /\ feeOut.err = NoErr /\ ~feeOut.panic
    /\ feeOut.tip = Max(feeIn.gp.n, 100000000)
    /\ feeOut.cap = Max(feeIn.gp.n, 100000000)

C14_Witness ==
  /\ OnFallbackWithPrice
  /\ feeOut.fn = "fallbackGasFees"
  /\ feeIn.gp.n = 99999999
  /\ feeOut.tip = 100000000
  /\ feeOut.cap = 100000000

\* the check command returned after the node answered eth_getCode with a
\* result
Checked == cmd = "check" /\ pc = "done" /\ err = NoErr

\* the code the node reported, without its 0x prefix
CodeHex ==
  IF Len(codeResult) >= 2 /\ codeResult[1] = CharCode["0"] /\ codeResult[2] = CharCode["x"]
  THEN SubSeq(codeResult, 3, Len(codeResult))
  ELSE codeResult

\* the code begins with ef0100, in either case of the letters
BeginsWithMarker ==
  /\ Len(CodeHex) >= 6
  /\ CodeHex[1] \in {CharCode["e"], CharCode["E"]}
  /\ CodeHex[2] \in {CharCode["f"], CharCode["F"]}
  /\ CodeHex[3] = 0 /\ CodeHex[4] = 1 /\ CodeHex[5] = 0 /\ CodeHex[6] = 0

\* C15: Check reports "safe" for the code "" or "0x", otherwise "delegated"
\* for code that begins with ef0100 after the 0x prefix (in lower or upper
\* case), otherwise "contract"; it reports one of the three whenever the
\* node answered with a result.
C15_CheckClassifiesCode ==
  /\ Checked =>
       verdict = IF codeResult = <<>> \/ codeResult = <<CharCode["0"], CharCode["x"]>> THEN "safe"
                 ELSE IF BeginsWithMarker THEN "delegated"
                 ELSE "contract"
  /\ (cmd = "check" /\ pc = "done" /\ err # NoErr) => verdict = ""

C15_Witness ==
  /\ Checked
  /\ verdict = "delegated"
  /\ codeResult[3] = CharCode["E"]
  /\ Len(codeResult) = 48

\* C16: the contract address that Check reports for delegated code is 0x
\* and the 40 hex digits (20 bytes) that follow the marker.
C16_DelegateIsTwentyBytes ==
  (Checked /\ verdict = "delegated") =>
    /\ Len(contractAddr) = 42
    /\ contractAddr = <<CharCode["0"], CharCode["x"]>> \o SubSeq(CodeHex, 7, 46)

\* the text is 40 hex digits, with or without 0x
IsAddressText(s) ==
  LET h == IF Len(s) >= 2 /\ s[1] = CharCode["0"] /\ s[2] = CharCode["x"]
           THEN SubSeq(s, 3, Len(s)) ELSE s
  IN Len(h) = 40 /\ \A k \in 1..40 : h[k] \in 0..21

\* the key that was read is a private key: 64 hex digits, not all zero
IsKey(k) == Len(k) = 64 /\ \E j \in 1..64 : k[j] # 0

\* C17: a run whose input is invalid (Check's address or Set's contract
\* address is no address, or a private key of Clear or Set is empty or no
\* key) ends with an error and sends no request; every request is sent
\* after the inputs read so far were found valid.
C17_ValidationBeforeNetwork ==
  /\ (cmd = "check" /\ pc = "done" /\ ~IsAddressText(address)) => (err # NoErr /\ rpcLog = <<>>)
  /\ (cmd = "set" /\ pc # "start" /\ ~IsAddressText(contractAddress)) =>
       (pc = "done" /\ err # NoErr /\ rpcLog = <<>>)
  /\ (cmd \in {"clear", "set"} /\ pc = "done" /\ ~(IsKey(userKey) /\ IsKey(relayerKey))) =>
       (err # NoErr /\ rpcLog = <<>>)
  /\ rpcLog # <<>> =>
       /\ cmd = "check" => IsAddressText(address)
       /\ cmd = "set" => IsAddressText(contractAddress)
       /\ cmd \in {"clear", "set"} => IsKey(userKey) /\ IsKey(relayerKey)

C17_Witness ==
  /\ cmd = "check"
  /\ pc = "done"
  /\ address = <<CharCode["0"], CharCode["x"], 1, CharCode["g"]>>
  /\ err = <<"invalid Ethereum address format">>
  /\ rpcLog = <<>>

\* the answers "y" and "yes" in every mix of upper and lower case
YesAnswers ==
  {<<a>> : a \in {CharCode["y"], CharCode["Y"]}}
  \cup {<<a, b, c>> : a \in {CharCode["y"], CharCode["Y"]},
                     b \in {CharCode["e"], CharCode["E"]},
                     c \in {CharCode["s"], CharCode["S"]}}

\* C18: a signature is made and eth_sendRawTransaction is sent only after
\* the user answered the prompt with y or yes (in any case); every other
\* answer ends the run with the error "operation cancelled by user", with
\* nothing signed and nothing sent.
C18_ConfirmationGuardsSigning ==
  /\ []((sigs # <<>> \/ signedTx # <<>> \/ "eth_sendRawTransaction" \in Range(rpcLog))
          => confirmation \in YesAnswers)
  /\ [][pc = "confirm" =>
          /\ sigs' = <<>> /\ signedTx' = <<>> /\ rpcLog' = rpcLog
          /\ IF confirmation' \in YesAnswers
             THEN pc' = "generate"
             ELSE pc' = "done" /\ err' = <<"operation cancelled by user">>]_vars

C18_Witness ==
  /\ pc = "done"
  /\ confirmation = <<CharCode["y"], CharCode["e"]>>
  /\ err = <<"operation cancelled by user">>
  /\ sigs = <<>>

\* the numbers the node may report for a fee request
Reported(resps) ==
  {SetString16(TrimPrefix0x(r.result)) : r \in {x \in resps : x.json /\ x.result # <<>>}}

\* the requests of the fee step: what was sent after eth_chainId and the
\* two eth_getTransactionCount, up to the broadcast
FeeCalls == SubSeq(rpcLog, 4, Len(rpcLog))

\* C19: the priority fee and the fee cap in the envelope are those of the
\* run, and they are a result of getSuggestedGasFees: its requests begin
\* with eth_maxPriorityFeePerGas and the pair is either, after eth_gasPrice,
\* the floored gas price twice, or the floored priority fee p and 2*b + p;
\* it is never a tenth of the gas price with twice the gas price.
C19_FeesFromEstimator ==
  (pc = "broadcast" /\ signedTx # <<>>) =>
    /\ SignedFields[3] = Bytes(IntToBytes(gasTip))
    /\ SignedFields[4] = Bytes(IntToBytes(gasFeeCap))
    /\ FeeCalls[1] = "eth_maxPriorityFeePerGas"
    /\ \E t \in TipResps, b \in BlockResps, g \in GasPriceResps :
         LET r == getSuggestedGasFees(t, b, g)
         IN r.err = NoErr /\ ~r.panic /\ r.calls = FeeCalls /\ r.tip = gasTip /\ r.cap = gasFeeCap
    /\ IF FeeCalls[Len(FeeCalls)] = "eth_gasPrice"
       THEN /\ gasFeeCap = gasTip
            /\ \E g \in Reported(GasPriceResps) : gasTip = Max(g, 100000000)
       ELSE /\ \E p \in Reported(TipResps) : gasTip = Max(p, 100000000)
            /\ \E b \in Reported(BlockResps) : gasFeeCap = 2 * b + gasTip
    /\ ~ \E g \in Reported(GasPriceResps) : gasTip = g \div 10 /\ gasFeeCap = 2 * g

C19_Witness ==
  /\ pc = "broadcast"
  /\ signedTx # <<>>
  /\ FeeCalls = <<"eth_maxPriorityFeePerGas", "eth_getBlockByNumber", "eth_gasPrice">>
  /\ gasTip = 1000000000
  /\ gasFeeCap = 1000000000

\* how getSuggestedGasFees was answered: no usable priority fee; a priority
\* fee but no readable base fee in the block; a priority fee, and the block
\* request failed in transport; a priority fee and a base fee
TipMissing == feeIn.tip.kind \in {"transport", "garbage", "error", "empty"}

BaseMissing == feeIn.tip.kind = "value" /\ feeIn.block.kind \in {"garbage", "nobase"}

BlockFailed == feeIn.tip.kind = "value" /\ feeIn.block.kind = "transport"

BothAnswered == feeIn.tip.kind = "value" /\ feeIn.block.kind = "value"

FellBack == "eth_gasPrice" \in Range(feeOut.calls)

Eip1559Result ==
  /\ feeOut.err = NoErr /\ ~feeOut.panic
  /\ feeOut.tip = Max(feeIn.tip.n, 100000000)
  /\ feeOut.cap = 2 * feeIn.block.n + feeOut.tip

\* C20 as stated: getSuggestedGasFees falls back exactly when the priority
\* fee is unavailable or empty or the block has no base fee, and in every
\* other case returns the EIP-1559 result without calling eth_gasPrice.
C20_FallbackOrEip1559 ==
  feeOut.fn = "getSuggestedGasFees" =>
    /\ FellBack <=> (TipMissing \/ BaseMissing)
    /\ ~(TipMissing \/ BaseMissing) => (Eip1559Result /\ ~FellBack)

\* C20, amended: getSuggestedGasFees falls back exactly when the priority
\* fee is unavailable or empty or the block response has no readable base
\* fee; when the block request itself fails it returns the error "failed to
\* get latest block" and does not fall back; in the remaining case it
\* returns the EIP-1559 result; eth_gasPrice is called on the fallback only.
C20_FallbackOrBlockErrorOrEip1559 ==
  feeOut.fn = "getSuggestedGasFees" =>
    /\ FellBack <=> (TipMissing \/ BaseMissing)
    /\ TipMissing => feeOut.calls = <<"eth_maxPriorityFeePerGas", "eth_gasPrice">>
    /\ BaseMissing =>
         feeOut.calls = <<"eth_maxPriorityFeePerGas", "eth_getBlockByNumber", "eth_gasPrice">>
    /\ BlockFailed =>
         /\ feeOut.err # NoErr
         /\ feeOut.err[1] = "failed to get latest block"
         /\ feeOut.calls = <<"eth_maxPriorityFeePerGas", "eth_getBlockByNumber">>
    /\ BothAnswered =>
         /\ Eip1559Result
         /\ feeOut.calls = <<"eth_maxPriorityFeePerGas", "eth_getBlockByNumber">>

C20_Witness ==
  /\ feeOut.fn = "getSuggestedGasFees"
  /\ BlockFailed
  /\ feeOut.err[1] = "failed to get latest block"
  /\ ~FellBack

\* the reads getSuggestedGasFees made that failed: in transport (the node
\* was not reached) or with a body that is no JSON (malformed data)
FailedReads ==
  {feeIn.tip.kind : x \in {1}}
  \cup (IF feeIn.tip.kind = "value" THEN {feeIn.block.kind} ELSE {})
  \cup (IF FellBack THEN {feeIn.gp.kind} ELSE {})

\* C21: when a read of getSuggestedGasFees fails, the function returns an
\* error and no fees, and the error tells an unreachable node from malformed
\* data.
C21_ReadFailurePropagates ==
  (feeOut.fn = "getSuggestedGasFees" /\ FailedReads \cap {"transport", "garbage"} # {}) =>
    /\ feeOut.err # NoErr
    /\ feeOut.tip = 0 /\ feeOut.cap = 0
    /\ "transport" \in FailedReads => feeOut.err[Len(feeOut.err)] = ErrTransport[1]
    /\ "transport" \notin FailedReads => feeOut.err[Len(feeOut.err)] = ErrJSON[1]

RECURSIVE StripZeroDigits(_)
\* hex digits without leading zeros (the digits of 0 are <<0>>)
StripZeroDigits(ds) ==
  IF Len(ds) > 1 /\ ds[1] = 0 THEN StripZeroDigits(Tail(ds)) ELSE ds

\* C22: the nonce that goes into the request, as an unsigned number, is the
\* number the node reported for eth_getTransactionCount.
C22_NonceExact ==
  (pc = "done" /\ nonceIn.kind = "value" /\ err = NoErr) =>
    nonceOut = StripZeroDigits(nonceIn.digits)

\* the number an RLP string item stands for
ItemNumber(item) == BytesToInt(item.b)

\* the [chain_id, delegate, nonce] list under the authorization digest
AuthPreimage == RlpDecodeBytes(Tail(sigs[1].digest.keccak)).xs

\* C23: the authorizer's nonce appears in the authorization tuple and its
\* digest and nowhere as the outer nonce; the relayer's nonce is the outer
\* nonce, in the signed preimage and in the broadcast payload, and is not in
\* the authorization; distinct nonces are never swapped or shared.
C23_NoncesNotConflated ==
  (pc = "broadcast" /\ signedTx # <<>>) =>
    /\ ItemNumber(SignedFields[2]) = relayerNonce
    /\ ItemNumber(UnsignedFields[2]) = relayerNonce
    /\ ItemNumber(SignedFields[10].xs[1].xs[3]) = userNonce
    /\ ItemNumber(UnsignedFields[10].xs[1].xs[3]) = userNonce
    /\ ItemNumber(AuthPreimage[3]) = userNonce
    /\ userNonce # relayerNonce =>
         /\ SignedFields[2] # SignedFields[10].xs[1].xs[3]
         /\ ItemNumber(SignedFields[2]) # userNonce
         /\ ItemNumber(AuthPreimage[3]) # relayerNonce

C23_Witness ==
  /\ pc = "broadcast" /\ signedTx # <<>>
  /\ userNonce = 12 /\ relayerNonce = 5
  /\ ItemNumber(SignedFields[2]) = 5

\* the place of each JSON-RPC method in a Clear or Set run
Phase(m) ==
  IF m = "eth_chainId" THEN 1
  ELSE IF m = "eth_getTransactionCount" THEN 2
  ELSE IF m \in {"eth_maxPriorityFeePerGas", "eth_getBlockByNumber", "eth_gasPrice"} THEN 3
  ELSE IF m = "eth_sendRawTransaction" THEN 4
  ELSE IF m = "eth_getTransactionReceipt" THEN 5
  ELSE 0

\* how many calls of a phase were made so far
InPhase(n) == Cardinality({k \in DOMAIN rpcLog : Phase(rpcLog[k]) = n})

\* no read follows the signing, no signing follows the broadcast, and the
\* broadcast is sent from the broadcast step, before any poll
OrderedStep ==
  /\ sigs # <<>> => (InPhase(3)' = InPhase(3) /\ InPhase(2)' = InPhase(2))
  /\ InPhase(4) = 1 => sigs' = sigs
  /\ InPhase(4)' > InPhase(4) => (pc = "broadcast" /\ InPhase(5) = 0)

\* C24: a Clear or Set run reads the chain id, then the two nonces, then the
\* fees, then signs the authorization, then the envelope, then sends exactly
\* one eth_sendRawTransaction, then polls for the receipt; the broadcast is
\* sent at most once and no poll precedes it.
C24_TotalOrder ==
  /\ [](cmd \in {"clear", "set"} =>
          /\ \A k \in DOMAIN rpcLog :
               /\ Phase(rpcLog[k]) >= 1
               /\ k > 1 => Phase(rpcLog[k - 1]) <= Phase(rpcLog[k])
          /\ InPhase(1) <= 1 /\ InPhase(2) <= 2 /\ InPhase(4) <= 1
          /\ InPhase(2) >= 1 => InPhase(1) = 1
          /\ InPhase(3) >= 1 => InPhase(2) = 2
          /\ Len(sigs) >= 1 => (InPhase(3) >= 1 /\ sigs[1].digest.keccak[1] = 5)
          /\ Len(sigs) >= 2 => sigs[2].digest.keccak[1] = 4
          /\ Len(sigs) <= 2
          /\ InPhase(4) >= 1 => (Len(sigs) = 2 /\ signedTx # <<>>)
          /\ InPhase(5) >= 1 => InPhase(4) = 1
          /\ InPhase(5) <= 60)
  /\ [][(cmd \in {"clear", "set"}) => OrderedStep]_vars

C24_Witness ==
  /\ cmd = "set" /\ pc = "done" /\ lastPoll = "0x1"
  /\ InPhase(1) = 1 /\ InPhase(2) = 2 /\ InPhase(3) = 3 /\ InPhase(4) = 1 /\ InPhase(5) = 2
  /\ Len(sigs) = 2

\* the run ended because GenerateSet7702AuthTx returned an error
GenerateFailed == pc = "done" /\ err # NoErr /\ err[1] = "failed to generate transaction"

\* a payload that carries the authorization signature and the outer signature
FullySigned(hex) ==
  LET raw == HexDecodeString(hex)
      fields == RlpDecodeBytes(Tail(raw.bytes)).xs
  IN /\ hex # <<>> /\ raw.ok /\ raw.bytes[1] = 4
     /\ Len(fields) = 13
     /\ Len(fields[10].xs) = 1 /\ Len(fields[10].xs[1].xs) = 6
     /\ fields[10].xs[1].xs[5] = SigR(1) /\ fields[10].xs[1].xs[6] = SigS(1)
     /\ fields[12] = SigR(2) /\ fields[13] = SigS(2)

\* C25: GenerateSet7702AuthTx returns a payload with both signatures, or the
\* empty string and an error; after a failed signing step nothing that was
\* signed so far is kept as the payload and nothing is broadcast.
C25_AllOrNothing ==
  /\ pc = "generate" =>
       \A lib1 \in LibOutcomes, lib2 \in LibOutcomes :
         LET r == GenerateSet7702AuthTx(Request, 0, lib1, lib2)
         IN IF lib1.ok /\ lib2.ok
            THEN r.err = NoErr /\ FullySigned(r.hex) /\ Len(r.signed) = 2
            ELSE r.err # NoErr /\ r.hex = <<>>
  /\ signedTx # <<>> => (Len(sigs) = 2 /\ ~GenerateFailed)
  /\ pc = "broadcast" => FullySigned(signedTx)
  /\ GenerateFailed =>
       /\ signedTx = <<>>
       /\ Len(sigs) <= 1
       /\ "eth_sendRawTransaction" \notin Range(rpcLog)
       /\ txHash = ""
  /\ "eth_sendRawTransaction" \in Range(rpcLog) => signedTx # <<>>

C25_Witness == GenerateFailed /\ Len(sigs) = 1 /\ signedTx = <<>> /\ cmd = "clear"

\* the bytes after the type byte that build7702Tx produced and the relayer signed
SignedPayload == Tail(sigs[2].digest.keccak)

\* C26: decoding the payload of build7702Tx and encoding it again with the
\* outer signature appended keeps the first ten fields byte for byte, the
\* zero value, the empty data, the empty access list and the authorization
\* entry included, so the fields broadcast are the fields the relayer signed.
C26_RoundTripKeepsFields ==
  (pc = "broadcast" /\ signedTx # <<>>) =>
    /\ RlpDecodeBytes(SignedPayload).ok
    /\ Len(UnsignedFields) = 10
    /\ RlpEncode(List(UnsignedFields)) = SignedPayload
    /\ SubSeq(SignedFields, 1, 10) = UnsignedFields
    /\ \A k \in 1..10 : RlpEncode(SignedFields[k]) = RlpEncode(UnsignedFields[k])
    /\ SignedFields[7] = Bytes(<<>>) /\ RlpEncode(SignedFields[7]) = RlpEncode(UInt(0))
    /\ SignedFields[8] = Bytes(<<>>)
    /\ SignedFields[9] = List(<<>>)
    /\ SignedFields[6] = Bytes(Delegate)
    /\ SignedFields[10].xs[1].xs[5] = SigR(1)
    /\ SignedFields[10].xs[1].xs[6] = SigS(1)
    /\ RlpEncode(List(SubSeq(SignedFields, 1, 10))) = SignedPayload

C26_Witness ==
  /\ pc = "broadcast" /\ signedTx # <<>> /\ cmd = "clear"
  /\ SignedFields[6] = Bytes([k \in 1..20 |-> 0])
  /\ UnsignedFields[7] = Bytes(<<>>) /\ UnsignedFields[9] = List(<<>>)
  /\ Len(SignedFields) = 13

\* other values of the outer envelope's own fields
OtherOuterFields ==
  [relayerNonce : {0, 5, 12, 300}, gasTip : {0, 100000000}, gasFeeCap : {100000000, 2100000000},
   gasLimit : {21000, 100000}]

\* the digest build7702Tx signs for the authorization when the outer fields are o
AuthDigestWith(o) ==
  build7702Tx(chainID, userKey, o.relayerNonce, Uint64(userNonce), o.gasTip, o.gasFeeCap,
              o.gasLimit, Delegate, <<>>, 1, [ok |-> TRUE, v |-> 0]).signed[1].digest

\* C27: the authorization digest is Keccak-256 of the byte 0x05 followed by
\* the RLP list [chain id, delegate, authorizer nonce]; computing it again
\* from the same three values gives the same digest, and it is the same for
\* every relayer nonce, fee and gas limit of the outer envelope.
C27_AuthDigestDeterministic ==
  Len(sigs) >= 1 =>
    LET digest == sigs[1].digest
        msg == digest.keccak
    IN /\ msg[1] = 5
       /\ Tail(msg) = RlpEncode(List(<<UInt(chainID), Bytes(Delegate), UInt(userNonce)>>))
       /\ (pc \in {"broadcast"} \/ GenerateFailed) =>
            /\ AuthPreimage = <<Bytes(IntToBytes(chainID)), Bytes(Delegate),
                                Bytes(IntToBytes(userNonce))>>
            /\ authTupleMessage(chainID, Delegate, userNonce) = digest
            /\ \A o \in OtherOuterFields : AuthDigestWith(o) = digest

C27_Witness ==
  /\ pc = "broadcast" /\ Len(sigs) = 2 /\ cmd = "set"
  /\ userNonce = 5 /\ relayerNonce = 12
  /\ sigs[1].digest.keccak[1] = 5
  /\ sigs[1].digest # sigs[2].digest

\* C28: once the interrupt goroutine has received the signal, the main flow
\* sends no further JSON-RPC request, eth_sendRawTransaction in particular.
C28_NoRpcAfterInterrupt == [][watcher # "waiting" => rpcLog' = rpcLog]_vars

\* the estimator returned a pair of fees and no error
FeesReturned == feeOut.fn # "" /\ ~feeOut.panic /\ feeOut.err = NoErr

\* C29: every pair the estimator returns without error has
\* 100000000 <= priority fee <= fee cap, on the EIP-1559 path and on the
\* fallback path, whatever base fee, suggestion and gas price the node gave.
C29_FeeBounds ==
  FeesReturned =>
    /\ MinPriorityFee <= feeOut.tip
    /\ feeOut.tip <= feeOut.cap
    /\ feeOut.fn = "getSuggestedGasFees" =>
         \A t \in TipResps, b \in BlockResps, g \in GasPriceResps :
           LET r == getSuggestedGasFees(t, b, g)
           IN (r.err = NoErr /\ ~r.panic) => (MinPriorityFee <= r.tip /\ r.tip <= r.cap)

C29_Witness ==
  /\ FeesReturned /\ feeOut.fn = "getSuggestedGasFees" /\ ~FellBack
  /\ feeIn.tip.kind = "value" /\ feeIn.tip.n = 0
  /\ feeIn.block.kind = "value" /\ feeIn.block.n = 0
  /\ feeOut.tip = 100000000 /\ feeOut.cap = 100000000

\* a poll whose answer decides nothing: no receipt, an unknown status or an error
Undecided == {"absent", "other", "error"}

\* what one undecided poll does: one more attempt used, a dot printed, no
\* success message, no error; the loop goes on unless this was attempt 60
StaysPending ==
  /\ i' = i + 1
  /\ i' <= 60
  /\ err' = NoErr
  /\ txHash' = txHash
  /\ Len(out') >= Len(out) + 1 /\ out'[Len(out) + 1] = "."
  /\ MinedMessage \notin Range(out')
  /\ pc' = (IF i + 1 < 60 THEN "sleep" ELSE "done")

\* C30: a poll that returns a receipt with a status other than "0x1" and
\* "0x0", or an error, is handled like a poll that found no receipt: the run
\* stays pending, one of the 60 attempts is used, and this poll reports
\* neither success nor failure.
C30_UndecidedPollStaysPending ==
  /\ [][(pc = "poll" /\ lastPoll' \in Undecided) => StaysPending]_vars
  /\ [](lastPoll \in Undecided =>
          /\ err = NoErr
          /\ MinedMessage \notin Range(out)
          /\ pc = (IF i < 60 THEN "sleep" ELSE "done")
          /\ i = Polls)

C30_Witness == lastPoll = "other" /\ pc = "sleep" /\ i = 3 /\ Polls = 3

====
